---- MODULE Spec2Model ----
(***************************************************************************)
(* MobileTextInput: the platform detector (os_detector.py), the key        *)
(* sequence executor (key_simulator.py), the button catalog                *)
(* (button_definitions.py), the mouse executors (mouse_controller.py) and  *)
(* the window enumeration (window_lister.py, instance_manager.py), as      *)
(* state machines over one set of variables.                               *)
(*                                                                         *)
(* Python values: None is the string "None"; a member of the enumeration   *)
(* OperatingSystem is the string "OperatingSystem.<NAME>", so that it is a *)
(* value different from every str, as in Python, where an Enum member      *)
(* never compares equal to a str.  Durations are integers, milliseconds.   *)
(***************************************************************************)
EXTENDS Integers, Sequences, FiniteSets

\* Longest raw key sequence a caller posts to /simulate.
MaxLen == 2

\* Reads of the detector's properties that are recorded.
MaxReads == 2

VARIABLES
    _instance,              \* OSDetector._instance: "None" or "os_detector"
    _detected_os,           \* the detector's _detected_os
    writes,                 \* every value assigned to _detected_os, in order
    observed,               \* what each read of the detector's properties returned
    imported,               \* key_simulator module body has run
    PYNPUT_AVAILABLE,
    WINDOWS_API_AVAILABLE,
    current_os,             \* KeySimulator.current_os, "None" before __init__
    pc,                     \* position of the simulate_key_sequence call
    key_sequence,           \* its argument
    i,                      \* steps of the loop that succeeded
    attempted,              \* each _simulate_key_action call: its step and what it returned
    trace,                  \* backend key events and time.sleep calls, in order
    held,                   \* keys the operating system sees held down
    result,                 \* return value: "None" (not returned), "True", "False"
    answered,               \* what platform.system() answered at each assignment in writes
    sys_modules,            \* the os_detector module: "absent", "loading" or "loaded"
    os_detector,            \* the module's global os_detector: "None" or an instance
    instances,              \* per OSDetector object: "absent" or its _detected_os attribute
    threads,                \* per thread: position, call, self, system_name, return value
    mouse_imported,         \* the mouse_controller module body has run
    PYNPUT_MOUSE_AVAILABLE,
    position,               \* mouse_controller.position: the cursor, <<x, y>> in pixels
    _initial_position,      \* the gesture anchor: <<>> for None, or <<x, y>>
    last_move,              \* last on_move of the gesture that set the cursor: <<>> or <<x, y>>
    ops,                    \* mouse operations called so far
    last,                   \* the last mouse operation: arguments, state before and after, outcome
    _movement_lock,         \* "None" when free, or the thread that holds it
    callers,                \* per thread inside a mouse operation: position, operation, x, y, outcome
    windows_imported,       \* the bodies of window_lister and instance_manager have run
    _WINDOWS_AVAILABLE,     \* ctypes.windll was there on Windows
    desktop,                \* the windows on the desktop, front to back
    instances_cache,        \* the instance manager's instances_cache
    enumerated,             \* the last list_windows or list_instances call and what it gave
    window_title,           \* the title last given to _extract_workspace_name
    workspace,              \* the label it returned
    osascript_line,         \* a line of the enumeration script's output, character by character
    listed,                 \* the window list_windows made of it: none or one
    activation,             \* the activate_window call made: id, parsed pair, script run, result
    focus,                  \* the activation made on the desktop: its id, strategies, result
    model_loaded,           \* VoiceProcessor.model_loaded
    model_loading,          \* VoiceProcessor.model_loading
    loader,                 \* position of the thread the constructor started on load_model
    transcribers,           \* per thread in transcribe_audio: position, sleeps slept, return value
    runners,                \* per request thread in simulate_key_sequence: position, sequence, steps done
    keyboard                \* the key events the backend got from all threads, in order

vars == <<_instance, _detected_os, writes, observed, imported, PYNPUT_AVAILABLE,
          WINDOWS_API_AVAILABLE, current_os, pc, key_sequence, i, attempted,
          trace, held, result, answered, sys_modules, os_detector,
          instances, threads, mouse_imported, PYNPUT_MOUSE_AVAILABLE, position,
          _initial_position, last_move, ops, last, _movement_lock, callers,
          windows_imported, _WINDOWS_AVAILABLE, desktop, instances_cache, enumerated,
          window_title, workspace, osascript_line, listed, activation,
          focus, model_loaded, model_loading, loader, transcribers, runners, keyboard>>

detectorVars == <<_instance, _detected_os, writes, observed, answered>>
moduleVars == <<imported, PYNPUT_AVAILABLE, WINDOWS_API_AVAILABLE, current_os>>
callVars == <<pc, key_sequence, i, attempted, trace, held, result>>
threadVars == <<sys_modules, os_detector, instances, threads>>
mouseVars == <<mouse_imported, PYNPUT_MOUSE_AVAILABLE, position, _initial_position,
              last_move, ops, last>>
lockVars == <<_movement_lock, callers>>
windowVars == <<windows_imported, _WINDOWS_AVAILABLE, desktop, instances_cache, enumerated>>
labelVars == <<window_title, workspace>>

\* The state of the parts that follow the enumeration.
idVars == <<osascript_line, listed, activation>>
focusVars == <<focus>>
voiceVars == <<model_loaded, model_loading, loader, transcribers>>
chordVars == <<runners, keyboard>>
laterVars == <<labelVars, idVars, focusVars, voiceVars, chordVars>>

\* What the detector and the key sequence executor leave alone.
otherVars == <<threadVars, mouseVars, lockVars, windowVars, laterVars>>

\* What the window enumeration leaves alone.
nonWindowVars == <<detectorVars, moduleVars, callVars, threadVars, mouseVars, lockVars,
                   laterVars>>

\* What the mouse executors leave alone.
nonMouseVars == <<detectorVars, moduleVars, callVars, threadVars, lockVars, windowVars,
                  laterVars>>

None == "None"

(***************************************************************************)
(* os_detector.py                                                          *)
(***************************************************************************)

\* What platform.system() may answer.
SystemNames == {"Windows", "Darwin", "Linux", "Unknown", "FreeBSD"}

WINDOWS == "OperatingSystem.WINDOWS"
MACOS == "OperatingSystem.MACOS"
LINUX == "OperatingSystem.LINUX"
UNKNOWN == "OperatingSystem.UNKNOWN"

OperatingSystem == {WINDOWS, MACOS, LINUX, UNKNOWN}

\* member.value
Value(member) ==
    CASE member = WINDOWS -> "Windows"
      [] member = MACOS -> "Darwin"
      [] member = LINUX -> "Linux"
      [] member = UNKNOWN -> "Unknown"

\* _detect_os whose except ValueError branch assigns UNKNOWN.
UnknownOnValueError(system_name) ==
    IF \E m \in OperatingSystem : Value(m) = system_name
    THEN CHOOSE m \in OperatingSystem : Value(m) = system_name
    ELSE UNKNOWN

\* OperatingSystem(system_name), with the except ValueError branch of _detect_os.
OperatingSystemOf(system_name) ==
    IF \E m \in OperatingSystem : Value(m) = system_name
    THEN CHOOSE m \in OperatingSystem : Value(m) = system_name
    ELSE LINUX

\* _detect_os without its "is None" guard: detects again on every call.
DetectAgain(detected, system_name) == OperatingSystemOf(system_name)

\* _detect_os: the value of _detected_os after the call.
DetectedAfter(detected, system_name) ==
    IF detected = None THEN OperatingSystemOf(system_name) ELSE detected

is_macos(detected) == detected = MACOS
is_windows(detected) == detected = WINDOWS
is_linux(detected) == detected = LINUX

\* The current_os property's return value, once _detect_os has run.
CurrentOsValue(detected) == IF detected = None THEN LINUX ELSE detected

\* modifier_key that ignores the platform.
ModifierAlwaysCtrl(detected) == "ctrl"

modifier_key(detected) == IF is_macos(detected) THEN "cmd" ELSE "ctrl"

\* A paste sequence that leaves the modifier down.
PasteKeepsModifier(detected) ==
    IF is_macos(detected)
    THEN << <<"cmd", "down">>, <<"v", "press">> >>
    ELSE << <<"ctrl", "down">>, <<"v", "press">> >>

paste_key_sequence(detected) ==
    IF is_macos(detected)
    THEN << <<"cmd", "down">>, <<"v", "press">>, <<"cmd", "up">> >>
    ELSE << <<"ctrl", "down">>, <<"v", "press">>, <<"ctrl", "up">> >>

copy_key_sequence(detected) ==
    IF is_macos(detected)
    THEN << <<"cmd", "down">>, <<"c", "press">>, <<"cmd", "up">> >>
    ELSE << <<"ctrl", "down">>, <<"c", "press">>, <<"ctrl", "up">> >>

select_all_key_sequence(detected) ==
    IF is_macos(detected)
    THEN << <<"cmd", "down">>, <<"a", "press">>, <<"cmd", "up">> >>
    ELSE << <<"ctrl", "down">>, <<"a", "press">>, <<"ctrl", "up">> >>

get_os_specific_delay(detected, action_type) ==
    IF is_macos(detected)
    THEN (IF action_type \in {"down", "up"} THEN 50 ELSE 30)
    ELSE 10

\* One read of every property of the detector.
Properties(detected) ==
    [current_os |-> CurrentOsValue(detected),
     is_macos |-> is_macos(detected),
     is_windows |-> is_windows(detected),
     is_linux |-> is_linux(detected),
     modifier_key |-> modifier_key(detected)]

\* Assignments to _detected_os made by one _detect_os call.
WritesAfter(detected, system_name) ==
    IF DetectedAfter(detected, system_name) = detected
    THEN writes
    ELSE IF Len(writes) < 3
         THEN Append(writes, DetectedAfter(detected, system_name))
         ELSE writes

\* The answers of platform.system() that led to the assignments in writes.
AnsweredAfter(detected, system_name) ==
    IF WritesAfter(detected, system_name) = writes
    THEN answered
    ELSE Append(answered, system_name)

\* OSDetector(): __new__ builds and detects only while _instance is None.
New(system_name) ==
    /\ IF _instance = None
       THEN /\ _instance' = "os_detector"
            /\ _detected_os' = DetectedAfter(_detected_os, system_name)
            /\ writes' = WritesAfter(_detected_os, system_name)
            /\ answered' = AnsweredAfter(_detected_os, system_name)
       ELSE UNCHANGED <<_instance, _detected_os, writes, answered>>
    /\ UNCHANGED <<observed, moduleVars, callVars, otherVars>>

\* os_detector._detect_os() called directly.
DetectOs(system_name) ==
    /\ _instance # None
    /\ _detected_os' = DetectedAfter(_detected_os, system_name)
    /\ writes' = WritesAfter(_detected_os, system_name)
    /\ answered' = AnsweredAfter(_detected_os, system_name)
    /\ UNCHANGED <<_instance, observed, moduleVars, callVars, otherVars>>

\* A caller reads current_os (which detects when nothing is memoized) and
\* then is_macos, is_windows, is_linux and modifier_key.
ReadProperties(system_name) ==
    /\ _instance # None
    /\ Len(observed) < MaxReads
    /\ _detected_os' = DetectedAfter(_detected_os, system_name)
    /\ writes' = WritesAfter(_detected_os, system_name)
    /\ answered' = AnsweredAfter(_detected_os, system_name)
    /\ observed' = Append(observed, Properties(_detected_os'))
    /\ UNCHANGED <<_instance, moduleVars, callVars, otherVars>>

(***************************************************************************)
(* key_simulator.py                                                        *)
(***************************************************************************)

\* Keys and actions of the raw sequences posted to /simulate: a modifier and a
\* key without virtual-key code; "hold" is not an action.
RawKeys == {"ctrl", "1"}
Actions == {"down", "up", "press", "hold"}
RawSteps == RawKeys \X Actions

RawSequences == UNION {[1..n -> RawSteps] : n \in 0..MaxLen}

\* _get_windows_vk_code: the code of the key, 0 for None.
_get_windows_vk_code(key) ==
    CASE key = "ctrl" -> 17
      [] key = "shift" -> 16
      [] key = "cmd" -> 91
      [] key = "enter" -> 13
      [] key = "backspace" -> 8
      [] key = "a" -> 65
      [] key = "c" -> 67
      [] key = "n" -> 78
      [] key = "v" -> 86
      [] OTHER -> 0

\* is_keyboard_available that always answers True.
AlwaysAvailable(pynput, winapi) == TRUE

is_keyboard_available(pynput, winapi) == pynput \/ winapi

\* The test `self.current_os == "Windows" and WINDOWS_API_AVAILABLE and user32`;
\* cur_os is the OperatingSystem member stored by __init__, compared with a str.
NativeSelected(cur_os, winapi) == cur_os = "Windows" /\ winapi

KeyEvent(via, key, ev) == [via |-> via, key |-> key, ev |-> ev]

\* fault: which backend call of the step raises (0: none).
_key_up(key, cur_os, winapi, pynput, fault) ==
    IF NativeSelected(cur_os, winapi) /\ _get_windows_vk_code(key) # 0
    THEN IF fault = 1
         THEN [ok |-> FALSE, events |-> <<>>]
         ELSE [ok |-> TRUE, events |-> <<KeyEvent("native", key, "up")>>]
    ELSE IF pynput
         THEN IF fault = 1
              THEN [ok |-> FALSE, events |-> <<>>]
              ELSE [ok |-> TRUE, events |-> <<KeyEvent("pynput", key, "up")>>]
         ELSE [ok |-> FALSE, events |-> <<>>]

\* _key_down that releases the key instead of pressing it.
KeyDownReleases(key, cur_os, winapi, pynput, fault) ==
    _key_up(key, cur_os, winapi, pynput, fault)

_key_down(key, cur_os, winapi, pynput, fault) ==
    IF NativeSelected(cur_os, winapi) /\ _get_windows_vk_code(key) # 0
    THEN IF fault = 1
         THEN [ok |-> FALSE, events |-> <<>>]
         ELSE [ok |-> TRUE, events |-> <<KeyEvent("native", key, "down")>>]
    ELSE IF pynput
         THEN IF fault = 1
              THEN [ok |-> FALSE, events |-> <<>>]
              ELSE [ok |-> TRUE, events |-> <<KeyEvent("pynput", key, "down")>>]
         ELSE [ok |-> FALSE, events |-> <<>>]

\* The two backend calls of a press: the first raises, the second raises, or
\* both are made.
PressVia(via, key, fault) ==
    CASE fault = 1 -> [ok |-> FALSE, events |-> <<>>]
      [] fault = 2 -> [ok |-> FALSE, events |-> <<KeyEvent(via, key, "down")>>]
      [] OTHER -> [ok |-> TRUE,
                   events |-> <<KeyEvent(via, key, "down"), KeyEvent(via, key, "up")>>]

_press_key(key_name, cur_os, winapi, pynput, fault) ==
    IF NativeSelected(cur_os, winapi) /\ key_name = "enter"
    THEN PressVia("native", key_name, fault)
    ELSE IF pynput
         THEN PressVia("pynput", key_name, fault)
         ELSE [ok |-> FALSE, events |-> <<>>]

_simulate_key_action(key, action, cur_os, winapi, pynput, fault) ==
    CASE action = "press" -> _press_key(key, cur_os, winapi, pynput, fault)
      [] action = "down" -> _key_down(key, cur_os, winapi, pynput, fault)
      [] action = "up" -> _key_up(key, cur_os, winapi, pynput, fault)
      [] OTHER -> [ok |-> FALSE, events |-> <<>>]

\* The loop of simulate_key_sequence going on after a failed step.
ContinueAlways(success) == TRUE

\* `if not success: return False`: the loop goes on only after a success.
ContinueLoop(success) == success

\* A failure branch that releases the keys the sequence pressed down.
ReleaseOnFailure(seq, heldNow) ==
    LET downs == SelectSeq(seq, LAMBDA s : s[2] = "down" /\ s[1] \in heldNow)
    IN [n \in 1..Len(downs) |-> KeyEvent("pynput", downs[n][1], "up")]

\* Key events issued by the failure branch (log the error, return False).
OnStepFailure(seq, heldNow) == <<>>

\* The delay of a step computed without its action.
StepDelayDefault(detected, action) == get_os_specific_delay(detected, "default")

\* `delay = os_detector.get_os_specific_delay(action)`
StepDelay(detected, action) == get_os_specific_delay(detected, action)

\* The keyboard after the events, applied in order.
RECURSIVE HeldAfterEvents(_, _)
HeldAfterEvents(h, events) ==
    IF events = <<>>
    THEN h
    ELSE HeldAfterEvents(
             IF Head(events).ev = "down"
             THEN h \cup {Head(events).key}
             ELSE h \ {Head(events).key},
             Tail(events))

KeyEntry(e, step) ==
    [op |-> "key", via |-> e.via, key |-> e.key, ev |-> e.ev, step |-> step, ms |-> 0]

SleepEntry(step, ms) ==
    [op |-> "sleep", via |-> "time", key |-> "", ev |-> "", step |-> step, ms |-> ms]

KeyEntries(events, step) == [n \in 1..Len(events) |-> KeyEntry(events[n], step)]

(***************************************************************************)
(* button_definitions.py                                                   *)
(***************************************************************************)

\* AVAILABLE_BUTTONS, by factory name.
Buttons == {"copy_paste_enter_button", "accept_button", "new_button", "stop_button",
            "reject_button", "clear_button", "copy_button", "paste_button",
            "copy_paste_button", "enter_button"}

\* The key_sequence field of the ButtonConfig each factory returns.
ButtonKeySequence(button) ==
    CASE button = "copy_button" -> <<>>
      [] button = "paste_button" ->
           << <<"ctrl", "down">>, <<"v", "press">>, <<"ctrl", "up">> >>
      [] button = "copy_paste_enter_button" ->
           << <<"ctrl", "down">>, <<"v", "press">>, <<"ctrl", "up">>,
              <<"enter", "press">> >>
      [] button = "accept_button" ->
           << <<"ctrl", "down">>, <<"enter", "press">>, <<"ctrl", "up">> >>
      [] button = "new_button" ->
           << <<"ctrl", "down">>, <<"n", "press">>, <<"ctrl", "up">> >>
      [] button = "stop_button" ->
           << <<"ctrl", "down">>, <<"shift", "down">>, <<"backspace", "press">>,
              <<"shift", "up">>, <<"ctrl", "up">> >>
      [] button = "reject_button" ->
           << <<"ctrl", "down">>, <<"backspace", "press">>, <<"ctrl", "up">> >>
      [] button = "clear_button" -> <<>>
      [] button = "copy_paste_button" ->
           << <<"ctrl", "down">>, <<"v", "press">>, <<"ctrl", "up">> >>
      [] button = "enter_button" -> << <<"enter", "press">> >>

\* Every sequence a caller hands to simulate_key_sequence: a raw sequence
\* (POST /simulate), a button's sequence, the detector's paste sequence
\* (POST /paste-text).
InputSequences(detected) ==
    RawSequences \cup {ButtonKeySequence(b) : b \in Buttons}
                 \cup {paste_key_sequence(detected)}

(***************************************************************************)
(* Threads that import os_detector and use the detector                    *)
(***************************************************************************)

\* Threads of the process.
NumThreads == 2

ThreadNames == <<"thread_1", "thread_2", "thread_3", "thread_4">>

Threads == {ThreadNames[n] : n \in 1..NumThreads}

\* A thread that has not imported the module.  An OSDetector object is named
\* by the thread that made it; self and ret are "None" or such a name.
NotStarted ==
    [pc |-> "start", call |-> None, self |-> None, system_name |-> None,
     ret |-> None, waited |-> FALSE]

(***************************************************************************)
(* mouse_controller.py: the gesture executor MouseControllerManager and    *)
(* the backend's MouseController, on one cursor.                           *)
(*                                                                         *)
(* Cursor positions are pairs of integers, pixels.  A joystick coordinate  *)
(* is an integer k that stands for the float k/64, which floats hold       *)
(* exactly, so that x * 400 is the fraction 400k/64 and |x| < 0.05 is      *)
(* 20|k| < 64.  Outcomes are "True", "False" and "raised" (an exception    *)
(* left the method).  fault says which access to mouse_controller raises:  *)
(* 0 none, 1 a read of position or a click or a move, 2 a write of         *)
(* position.                                                               *)
(***************************************************************************)

\* Mouse operations called in one run.
MaxOps == 3

_sensitivity == 400

\* _initial_position is None.
NoAnchor == <<>>

\* Where the cursor is when the program starts.
StartPosition == <<500, 300>>

\* Joystick positions of the callers, in 64ths: inside the dead zone, one
\* coordinate inside it (either one), and none.
JoyInputs == {<<3, -3>>, <<5, 3>>, <<-3, -5>>, <<-5, 5>>}

\* Offsets posted to /mouse/move.
Offsets == {<<0, 0>>, <<10, -5>>}

MouseButtons == {"left", "right", "middle"}

Abs(k) == IF k < 0 THEN -k ELSE k

\* int() of a fraction that rounds down.
FloorInt(num, den) == num \div den

\* int(num / den): Python's int() drops the fraction, towards zero.
PyInt(num, den) == IF num >= 0 THEN num \div den ELSE -((-num) \div den)

\* int(x * self._sensitivity) for the joystick coordinate k/64.
Delta(k) == PyInt(k * _sensitivity, 64)

\* A dead zone that one small coordinate is enough for.
DeadZoneEither(x, y) == 20 * Abs(x) < 64 \/ 20 * Abs(y) < 64

\* abs(x) < 0.05 and abs(y) < 0.05
DeadZone(x, y) == 20 * Abs(x) < 64 /\ 20 * Abs(y) < 64

\* What a method leaves behind: its outcome, the cursor, the anchor and the
\* button it clicked.
Outcome(ret, pos, anchor, clicked) ==
    [ret |-> ret, position |-> pos, anchor |-> anchor, clicked |-> clicked]

\* on_start: the anchor becomes the cursor position.
on_start(avail, anchor, pos, fault) ==
    IF ~avail THEN Outcome("False", pos, anchor, None)
    ELSE IF fault = 1 THEN Outcome("False", pos, anchor, None)
    ELSE Outcome("True", pos, pos, None)

\* on_move without gesture that starts one where the cursor is.
StartOnMove(pos, anchor) == Outcome("True", pos, pos, None)

\* on_move: if self._initial_position is None: return False
NoGesture(pos, anchor) == Outcome("False", pos, anchor, None)

\* An on_move that adds the deltas to the cursor position.
MoveFromCursor(anchor, pos) == pos

\* on_move adds the deltas to self._initial_position.
MoveBase(anchor, pos) == anchor

\* on_move: the position it computes, x not inverted and y inverted.
Target(base, x, y) == <<base[1] + Delta(x), base[2] + Delta(-y)>>

\* An on_move that tests the dead zone before the gesture.
DeadZoneFirst(avail, anchor, pos, x, y, fault) ==
    IF ~avail THEN Outcome("False", pos, anchor, None)
    ELSE IF DeadZone(x, y) THEN Outcome("True", pos, anchor, None)
    ELSE IF anchor = NoAnchor THEN NoGesture(pos, anchor)
    ELSE IF fault # 0 THEN Outcome("False", pos, anchor, None)
    ELSE Outcome("True", Target(MoveBase(anchor, pos), x, y), anchor, None)

\* on_move: the backend, then the gesture, then the dead zone, then the move.
on_move(avail, anchor, pos, x, y, fault) ==
    IF ~avail THEN Outcome("False", pos, anchor, None)
    ELSE IF anchor = NoAnchor THEN NoGesture(pos, anchor)
    ELSE IF DeadZone(x, y) THEN Outcome("True", pos, anchor, None)
    ELSE IF fault # 0 THEN Outcome("False", pos, anchor, None)
    ELSE Outcome("True", Target(MoveBase(anchor, pos), x, y), anchor, None)

\* An on_end that returns True and keeps the anchor.
EndKeepsAnchor(anchor, pos) == Outcome("True", pos, anchor, None)

\* on_end: no availability test, nothing that raises.
on_end(anchor, pos) == Outcome("True", pos, NoAnchor, None)

\* move_mouse: both axes inverted, added to the cursor position, which is
\* read between `with self._movement_lock` and `try`.
move_mouse(avail, anchor, pos, x, y, fault) ==
    IF ~avail THEN Outcome("False", pos, anchor, None)
    ELSE IF DeadZone(x, y) THEN Outcome("True", pos, anchor, None)
    ELSE IF fault = 1 THEN Outcome("raised", pos, anchor, None)
    ELSE IF fault = 2 THEN Outcome("False", pos, anchor, None)
    ELSE Outcome("True", <<pos[1] + Delta(-x), pos[2] + Delta(-y)>>, anchor, None)

\* MouseController.move_relative: mouse_controller.move(dx, dy).
move_relative(avail, anchor, pos, dx, dy, fault) ==
    IF ~avail THEN Outcome("False", pos, anchor, None)
    ELSE IF fault = 1 THEN Outcome("False", pos, anchor, None)
    ELSE Outcome("True", <<pos[1] + dx, pos[2] + dy>>, anchor, None)

\* MouseController.click, click_left_button and click_right_button.
click(avail, anchor, pos, button, fault) ==
    IF ~avail THEN Outcome("False", pos, anchor, None)
    ELSE IF fault = 1 THEN Outcome("False", pos, anchor, None)
    ELSE Outcome("True", pos, anchor, button)

\* No mouse operation has been called.
NoOperation ==
    [op |-> None, x |-> 0, y |-> 0, fault |-> 0, ret |-> None,
     posBefore |-> <<>>, posAfter |-> <<>>, anchorBefore |-> <<>>, anchorAfter |-> <<>>,
     clicked |-> None]

\* One call of a mouse operation, from the state it found to what it left.
Operation(op, x, y, fault, r) ==
    /\ position' = r.position
    /\ _initial_position' = r.anchor
    /\ ops' = ops + 1
    /\ last' = [op |-> op, x |-> x, y |-> y, fault |-> fault, ret |-> r.ret,
                posBefore |-> position, posAfter |-> r.position,
                anchorBefore |-> _initial_position, anchorAfter |-> r.anchor,
                clicked |-> r.clicked]

\* The module body: pynput.mouse imports or it does not.
ImportMouse(pynput) ==
    /\ ~mouse_imported
    /\ mouse_imported' = TRUE
    /\ PYNPUT_MOUSE_AVAILABLE' = pynput
    /\ UNCHANGED <<position, _initial_position, last_move, ops, last, nonMouseVars>>

Callable == mouse_imported /\ ops < MaxOps

OnStart(fault) ==
    /\ Callable
    /\ LET r == on_start(PYNPUT_MOUSE_AVAILABLE, _initial_position, position, fault)
       IN /\ Operation("on_start", 0, 0, fault, r)
          /\ last_move' = IF r.ret = "True" THEN <<>> ELSE last_move
    /\ UNCHANGED <<mouse_imported, PYNPUT_MOUSE_AVAILABLE, nonMouseVars>>

OnMove(x, y, fault) ==
    /\ Callable
    /\ LET r == on_move(PYNPUT_MOUSE_AVAILABLE, _initial_position, position, x, y, fault)
       IN /\ Operation("on_move", x, y, fault, r)
          /\ last_move' = IF r.ret = "True" /\ ~DeadZone(x, y) THEN <<x, y>> ELSE last_move
    /\ UNCHANGED <<mouse_imported, PYNPUT_MOUSE_AVAILABLE, nonMouseVars>>

OnEnd ==
    /\ Callable
    /\ Operation("on_end", 0, 0, 0, on_end(_initial_position, position))
    /\ last_move' = <<>>
    /\ UNCHANGED <<mouse_imported, PYNPUT_MOUSE_AVAILABLE, nonMouseVars>>

\* A move that is not on_move ends what on_move left: last_move is forgotten
\* once the cursor has been set by something else.
MoveMouse(x, y, fault) ==
    /\ Callable
    /\ LET r == move_mouse(PYNPUT_MOUSE_AVAILABLE, _initial_position, position, x, y, fault)
       IN /\ Operation("move_mouse", x, y, fault, r)
          /\ last_move' = IF r.position = position THEN last_move ELSE <<>>
    /\ UNCHANGED <<mouse_imported, PYNPUT_MOUSE_AVAILABLE, nonMouseVars>>

MoveRelative(dx, dy, fault) ==
    /\ Callable
    /\ LET r == move_relative(PYNPUT_MOUSE_AVAILABLE, _initial_position, position,
                              dx, dy, fault)
       IN /\ Operation("move_relative", dx, dy, fault, r)
          /\ last_move' = IF r.position = position THEN last_move ELSE <<>>
    /\ UNCHANGED <<mouse_imported, PYNPUT_MOUSE_AVAILABLE, nonMouseVars>>

\* MouseController.click(button) of the backend.
Click(button, fault) ==
    /\ Callable
    /\ Operation("click", 0, 0, fault,
                 click(PYNPUT_MOUSE_AVAILABLE, _initial_position, position, button, fault))
    /\ UNCHANGED <<mouse_imported, PYNPUT_MOUSE_AVAILABLE, last_move, nonMouseVars>>

ClickLeftButton(fault) ==
    /\ Callable
    /\ Operation("click_left_button", 0, 0, fault,
                 click(PYNPUT_MOUSE_AVAILABLE, _initial_position, position, "left", fault))
    /\ UNCHANGED <<mouse_imported, PYNPUT_MOUSE_AVAILABLE, last_move, nonMouseVars>>

ClickRightButton(fault) ==
    /\ Callable
    /\ Operation("click_right_button", 0, 0, fault,
                 click(PYNPUT_MOUSE_AVAILABLE, _initial_position, position, "right", fault))
    /\ UNCHANGED <<mouse_imported, PYNPUT_MOUSE_AVAILABLE, last_move, nonMouseVars>>

(***************************************************************************)
(* The gesture executor called by several threads: on_start, on_move and   *)
(* on_end statement by statement, `with self._movement_lock` as an acquire *)
(* and a release.  The backend works and raises nothing here.              *)
(***************************************************************************)

\* A thread that is in no mouse operation.
Outside == [pc |-> "outside", op |-> None, x |-> 0, y |-> 0, ret |-> None]

\* The rest of the state, which no step of a gesture operation changes.
nonGestureVars == <<mouse_imported, PYNPUT_MOUSE_AVAILABLE, last_move, last, detectorVars,
                    moduleVars, callVars, threadVars, windowVars, laterVars>>

\* The thread enters op; `if not self.is_available(): return False` is the
\* first statement of on_start and on_move, on_end has none.
Enter(t, op, x, y) ==
    /\ mouse_imported
    /\ ops < MaxOps
    /\ callers[t].pc = "outside"
    /\ ops' = ops + 1
    /\ callers' = [callers EXCEPT ![t] =
           IF op # "on_end" /\ ~PYNPUT_MOUSE_AVAILABLE
           THEN [pc |-> "outside", op |-> op, x |-> x, y |-> y, ret |-> "False"]
           ELSE [pc |-> IF op = "on_move" THEN "check" ELSE "acquire",
                 op |-> op, x |-> x, y |-> y, ret |-> None]]
    /\ UNCHANGED <<position, _initial_position, _movement_lock>>

Return(t, ret) == [callers EXCEPT ![t].pc = "outside", ![t].ret = ret]

EnterOnStart(t) == Enter(t, "on_start", 0, 0) /\ UNCHANGED nonGestureVars
EnterOnMove(t, x, y) == Enter(t, "on_move", x, y) /\ UNCHANGED nonGestureVars
EnterOnEnd(t) == Enter(t, "on_end", 0, 0) /\ UNCHANGED nonGestureVars

\* on_move: `if self._initial_position is None: return False`, then the dead
\* zone, both before `with self._movement_lock`.
Check(t) ==
    /\ callers[t].pc = "check"
    /\ callers' = IF _initial_position = NoAnchor THEN Return(t, "False")
                  ELSE IF DeadZone(callers[t].x, callers[t].y) THEN Return(t, "True")
                  ELSE [callers EXCEPT ![t].pc = "acquire"]
    /\ UNCHANGED <<position, _initial_position, _movement_lock, ops, nonGestureVars>>

\* with self._movement_lock: waits until the lock is free.
Acquire(t) ==
    /\ callers[t].pc = "acquire"
    /\ _movement_lock = None
    /\ _movement_lock' = t
    /\ callers' = [callers EXCEPT ![t].pc = "locked"]
    /\ UNCHANGED <<position, _initial_position, ops, nonGestureVars>>

\* on_start under the lock: self._initial_position = mouse_controller.position
StartLocked(t) ==
    /\ callers[t].pc = "locked" /\ callers[t].op = "on_start"
    /\ _initial_position' = position
    /\ _movement_lock' = None
    /\ callers' = Return(t, "True")
    /\ UNCHANGED <<position, ops, nonGestureVars>>

\* on_move under the lock: self._initial_position[0] raises TypeError when
\* the anchor is None, and the except clause returns False.
MoveLocked(t) ==
    /\ callers[t].pc = "locked" /\ callers[t].op = "on_move"
    /\ IF _initial_position = NoAnchor
       THEN /\ callers' = Return(t, "False")
            /\ UNCHANGED position
       ELSE /\ position' = Target(_initial_position, callers[t].x, callers[t].y)
            /\ callers' = Return(t, "True")
    /\ _movement_lock' = None
    /\ UNCHANGED <<_initial_position, ops, nonGestureVars>>

\* on_end under the lock: self._initial_position = None
EndLocked(t) ==
    /\ callers[t].pc = "locked" /\ callers[t].op = "on_end"
    /\ _initial_position' = NoAnchor
    /\ _movement_lock' = None
    /\ callers' = Return(t, "True")
    /\ UNCHANGED <<position, ops, nonGestureVars>>

(***************************************************************************)
(* window_lister.py and instance_manager.py: the enumeration of windows.   *)
(*                                                                         *)
(* A window is a record of its application, its title and its handle.  A   *)
(* string built by concatenation is the tuple of its parts.  A call gives  *)
(* a record: raised says that an exception left it, value is the list it   *)
(* returned.  The outcome of the operating system's part of a call is one  *)
(* of: "ok"; for osascript "nonzero" (exit code), "timeout", "empty" (no   *)
(* output) and "error" (subprocess.run raises something else); for         *)
(* EnumWindows "false" (it reports failure and has visited nothing) and    *)
(* "error" (the foreign call raises).                                      *)
(***************************************************************************)

\* Windows on the desktop at one time.
MaxWindows == 2

_ID_SEP == "\\x1f"

\* The application list_instances looks for.
application_name == "Cursor"

\* The windows that can be on the desktop: four of the application, two of
\* them with the same title and one without title, and one of another
\* application whose name AppleScript gives as "missing value".
WindowPool ==
    {[app |-> "Cursor", title |-> "main.py", hwnd |-> 66],
     [app |-> "Cursor", title |-> "main.py", hwnd |-> 68],
     [app |-> "Cursor", title |-> "", hwnd |-> 67],
     [app |-> "Cursor", title |-> "notes.md", hwnd |-> 1048],
     [app |-> "Finder", title |-> "missing value", hwnd |-> 130]}

\* Desktops: the windows are different ones.
Desktops ==
    {d \in UNION {[1..n -> WindowPool] : n \in 0..MaxWindows} :
        \A m \in 1..Len(d), n \in 1..Len(d) : m # n => d[m] # d[n]}

OsascriptOutcomes == {"ok", "nonzero", "timeout", "empty", "error"}
EnumWindowsOutcomes == {"ok", "false", "error"}

\* A list returned, and no assignment to instances_cache.
Returned(value) == [raised |-> FALSE, value |-> value, stored |-> FALSE]

\* self.instances_cache = instances, then return instances.
Stored(value) == [raised |-> FALSE, value |-> value, stored |-> TRUE]

Raised == [raised |-> TRUE, value |-> <<>>, stored |-> FALSE]

DecimalDigits == <<"0", "1", "2", "3", "4", "5", "6", "7", "8", "9">>

\* str(n) of a natural number: its decimal digits.
RECURSIVE str(_)
str(n) ==
    IF n < 10
    THEN <<DecimalDigits[n + 1]>>
    ELSE Append(str(n \div 10), DecimalDigits[(n % 10) + 1])

\* The lines osascript prints for list_windows: one for every window whose
\* name is not "".
ScriptLines(d) == SelectSeq(d, LAMBDA w : w.title # "")

\* _list_windows_macos: everything is inside one try.
_list_windows_macos(outcome, d) ==
    IF outcome # "ok" THEN Returned(<<>>)
    ELSE IF ScriptLines(d) = <<>> THEN Returned(<<>>)
    ELSE LET kept == SelectSeq(ScriptLines(d), LAMBDA w : w.title # "missing value")
         IN Returned([n \in 1..Len(kept) |->
                          [id |-> <<kept[n].app, _ID_SEP, kept[n].title>>,
                           title |-> kept[n].title,
                           app |-> kept[n].app]])

\* _list_windows_windows: the callback keeps the windows with a title; the
\* EnumWindows call is in no try and its return value is not looked at.
_list_windows_windows(outcome, d) ==
    IF outcome = "error" THEN Raised
    ELSE LET visited == IF outcome = "ok" THEN d ELSE <<>>
             found == SelectSeq(visited, LAMBDA w : w.title # "")
         IN Returned([n \in 1..Len(found) |->
                          [id |-> str(found[n].hwnd),
                           title |-> found[n].title,
                           app |-> None]])

list_windows(detected, available, outcome, d) ==
    IF is_macos(detected) THEN _list_windows_macos(outcome, d)
    ELSE IF is_windows(detected) /\ available THEN _list_windows_windows(outcome, d)
    ELSE Returned(<<>>)

\* The windows of the application.
OfApplication(d) == SelectSeq(d, LAMBDA w : w.app = application_name)

\* MacOSApplicationInstanceManager.list_instances: the count script, then
\* the script of the window names; check=True makes an exit code an
\* exception, and both runs are inside a try.
list_instances_macos(count_outcome, names_outcome, d) ==
    IF count_outcome \in {"nonzero", "error"} THEN Returned(<<>>)
    ELSE IF count_outcome = "ok" /\ OfApplication(d) = <<>> THEN Returned(<<>>)
    ELSE IF names_outcome # "ok" THEN Returned(<<>>)
    ELSE LET names == SelectSeq(OfApplication(d), LAMBDA w : w.title # "")
         IN IF names = <<>> THEN Returned(<<>>)
            ELSE Stored([n \in 1..Len(names) |->
                             [id |-> <<"macos_", str(n - 1)>>,
                              title |-> names[n].title,
                              platform |-> "macOS",
                              application |-> application_name]])

\* WindowsApplicationInstanceManager.list_instances: the whole enumeration
\* is inside a try.
list_instances_windows(outcome, d) ==
    IF outcome = "error" THEN Returned(<<>>)
    ELSE LET visited == IF outcome = "ok" THEN d ELSE <<>>
             found == SelectSeq(OfApplication(visited), LAMBDA w : w.title # "")
         IN Stored([n \in 1..Len(found) |->
                        [id |-> <<"windows_", str(n - 1)>>,
                         title |-> found[n].title,
                         platform |-> "Windows",
                         application |-> application_name,
                         hwnd |-> found[n].hwnd]])

\* list_instances of the manager that create_application_instance_manager
\* makes for the name platform.system() answers.
list_instances(name, available, count_outcome, outcome, d) ==
    IF name = "Darwin" THEN list_instances_macos(count_outcome, outcome, d)
    ELSE IF name = "Windows" /\ available THEN list_instances_windows(outcome, d)
    ELSE Returned(<<>>)

\* The outcomes the enumeration of the platform can have; without
\* enumeration there is no call that could fail.
OutcomesOn(name, available) ==
    IF name = "Darwin" THEN OsascriptOutcomes
    ELSE IF name = "Windows" /\ available THEN EnumWindowsOutcomes
    ELSE {"ok"}

\* What platform.system() answers in this process.
PlatformName == answered[1]

NotEnumerated ==
    [op |-> None, count_outcome |-> None, outcome |-> None, result |-> Returned(<<>>)]

\* The module bodies: ctypes.windll is tried on Windows only.
ImportWindows(windll) ==
    /\ _instance # None
    /\ ~windows_imported
    /\ windows_imported' = TRUE
    /\ _WINDOWS_AVAILABLE' = (is_windows(_detected_os) /\ windll)
    /\ UNCHANGED <<desktop, instances_cache, enumerated, nonWindowVars>>

\* Windows open, close and change their order.
DesktopChanges(d) ==
    /\ desktop' = d
    /\ UNCHANGED <<windows_imported, _WINDOWS_AVAILABLE, instances_cache, enumerated,
                   nonWindowVars>>

\* GET /windows: list_windows().
ListWindows(outcome) ==
    /\ windows_imported
    /\ outcome \in OutcomesOn(PlatformName, _WINDOWS_AVAILABLE)
    /\ enumerated' = [op |-> "list_windows", count_outcome |-> None, outcome |-> outcome,
                      result |-> list_windows(_detected_os, _WINDOWS_AVAILABLE,
                                              outcome, desktop)]
    /\ UNCHANGED <<windows_imported, _WINDOWS_AVAILABLE, desktop, instances_cache,
                   nonWindowVars>>

\* list_instances() of the instance manager.
ListInstances(count_outcome, outcome) ==
    /\ windows_imported
    /\ count_outcome \in OutcomesOn(PlatformName, _WINDOWS_AVAILABLE) \ {"timeout"}
    /\ outcome \in OutcomesOn(PlatformName, _WINDOWS_AVAILABLE) \ {"timeout"}
    /\ PlatformName # "Darwin" => count_outcome = outcome
    /\ LET r == list_instances(PlatformName, _WINDOWS_AVAILABLE, count_outcome,
                               outcome, desktop)
       IN /\ enumerated' = [op |-> "list_instances", count_outcome |-> count_outcome,
                            outcome |-> outcome, result |-> r]
          /\ instances_cache' = IF r.stored THEN r.value ELSE instances_cache
    /\ UNCHANGED <<windows_imported, _WINDOWS_AVAILABLE, desktop, nonWindowVars>>

(***************************************************************************)
(* Activation.  What the activation scripts and the Win32 calls do is the  *)
(* environment's: env.script is "ok" or "fails" (osascript exits non-zero, *)
(* runs out of time or cannot be started; a Win32 call raises),            *)
(* env.raises holds the strategies that raise an error inside the script   *)
(* and env.fallback is "ok" or "fails" for the fallback script.  A         *)
(* strategy is tried only after the ones before it have raised, so the     *)
(* sets of raising strategies that differ in what happens are the four     *)
(* initial parts of the chain.                                             *)
(***************************************************************************)

Strategies == <<"index", "AXRaise", "click">>

RaiseSets == {{Strategies[n] : n \in 1..k} : k \in 0..3}

Envs == [script : {"ok", "fails"}, raises : RaiseSets, fallback : {"ok", "fails"}]

\* No activation made.
NoFocus ==
    [op |-> None, id |-> <<>>, ret |-> None, attempted |-> FALSE, tried |-> <<>>,
     raises |-> {}, found |-> FALSE, fallback |-> FALSE, fronted |-> <<>>]

\* What an activation gives: its return value, whether a script or a Win32
\* call was run, the strategies tried in order, whether the script found the
\* target window, whether the fallback ran, and the window brought to the
\* foreground (none: <<>>).
Gives(ret, ran, tried, found, fallback, fronted) ==
    [ret |-> ret, attempted |-> ran, tried |-> tried, found |-> found,
     fallback |-> fallback, fronted |-> fronted]

Rejected == Gives("False", FALSE, <<>>, FALSE, FALSE, <<>>)

\* The desktop with window w in front.
BringToFront(d, w) == <<w>> \o SelectSeq(d, LAMBDA v : v # w)

\* The strategies the chain goes through: each one after all the ones before
\* it have raised, up to the one numbered upto.
RECURSIVE Chain(_, _, _)
Chain(n, upto, raises) ==
    IF n = upto \/ Strategies[n] \notin raises THEN <<Strategies[n]>>
    ELSE <<Strategies[n]>> \o Chain(n + 1, upto, raises)

\* The first window of the process, in a sequence: what `set frontmost to
\* true` brings forward.
Front(ofProcess) == IF ofProcess = <<>> THEN <<>> ELSE <<ofProcess[1]>>

\* _activate_macos of window_lister, on an id of parts <<app, _ID_SEP, title>>:
\* the script returns "ok" when the window is not found and when AXRaise
\* raises as well.
ActivateMacos(window_id, env, d) ==
    IF \A n \in 1..Len(window_id) : window_id[n] # _ID_SEP THEN Rejected
    ELSE IF env.script # "ok" THEN Gives("False", TRUE, <<>>, FALSE, FALSE, <<>>)
    ELSE LET ofProcess == SelectSeq(d, LAMBDA w : w.app = window_id[1])
             named == SelectSeq(ofProcess, LAMBDA w : w.title = window_id[3])
             tried == Chain(1, 2, env.raises)
         IN IF named = <<>>
            THEN Gives("True", TRUE, <<>>, FALSE, FALSE, Front(ofProcess))
            ELSE Gives("True", TRUE, tried, TRUE, FALSE,
                       IF tried[Len(tried)] \in env.raises
                       THEN Front(ofProcess) ELSE <<named[1]>>)

\* int(window_id) of a string of digits.
RECURSIVE int(_)
int(digits) ==
    IF digits = <<>> THEN 0
    ELSE 10 * int(SubSeq(digits, 1, Len(digits) - 1))
         + (CHOOSE k \in 0..9 : DecimalDigits[k + 1] = digits[Len(digits)])

\* int() raises ValueError.
ValueError(window_id) ==
    window_id = <<>> \/ \E n \in 1..Len(window_id) :
                            \A k \in 1..10 : DecimalDigits[k] # window_id[n]

\* The Win32 calls on hwnd: they answer 0 for a handle that is no window and
\* raise nothing, and their answers are not looked at.
Win32Focus(hwnd, env, d) ==
    IF env.script # "ok" THEN Gives("False", TRUE, <<>>, FALSE, FALSE, <<>>)
    ELSE LET handled == SelectSeq(d, LAMBDA w : w.hwnd = hwnd)
         IN Gives("True", TRUE, <<>>, handled # <<>>, FALSE, Front(handled))

\* _activate_windows of window_lister.
ActivateWindows(window_id, env, d) ==
    IF ValueError(window_id) THEN Rejected ELSE Win32Focus(int(window_id), env, d)

\* activate_window.
activate_window(detected, available, window_id, env, d) ==
    IF window_id = <<>> THEN Rejected
    ELSE IF is_macos(detected) THEN ActivateMacos(window_id, env, d)
    ELSE IF is_windows(detected) /\ available THEN ActivateWindows(window_id, env, d)
    ELSE Rejected

\* _fallback_focus: the application is activated; True unless osascript fails.
_fallback_focus(tried, found, env, d) ==
    IF env.fallback # "ok" THEN Gives("False", TRUE, tried, found, TRUE, <<>>)
    ELSE Gives("True", TRUE, tried, found, TRUE, Front(OfApplication(d)))

\* The entries of the cache with this id.
Cached(cache, instance_id) == SelectSeq(cache, LAMBDA e : e.id = instance_id)

\* MacOSApplicationInstanceManager.focus_instance.
focus_instance_macos(instance_id, env, cache, d) ==
    IF Cached(cache, instance_id) = <<>> THEN Rejected
    ELSE IF env.script # "ok" THEN Gives("False", TRUE, <<>>, FALSE, FALSE, <<>>)
    ELSE LET named == SelectSeq(OfApplication(d),
                                LAMBDA w : w.title = Cached(cache, instance_id)[1].title)
             tried == Chain(1, 3, env.raises)
         IN IF named = <<>> THEN _fallback_focus(<<>>, FALSE, env, d)
            ELSE IF tried[Len(tried)] \in env.raises
            THEN _fallback_focus(tried, TRUE, env, d)
            ELSE Gives("True", TRUE, tried, TRUE, FALSE, <<named[1]>>)

\* WindowsApplicationInstanceManager.focus_instance.
focus_instance_windows(instance_id, env, cache, d) ==
    IF Cached(cache, instance_id) = <<>> THEN Rejected
    ELSE Win32Focus(Cached(cache, instance_id)[1].hwnd, env, d)

\* focus_instance of the manager of the platform.
focus_instance(name, available, instance_id, env, cache, d) ==
    IF name = "Darwin" THEN focus_instance_macos(instance_id, env, cache, d)
    ELSE IF name = "Windows" /\ available
    THEN focus_instance_windows(instance_id, env, cache, d)
    ELSE Rejected

\* The ids list_windows can give, on either platform.
WindowIds ==
    {<<w.app, _ID_SEP, w.title>> : w \in WindowPool} \cup {str(w.hwnd) : w \in WindowPool}

\* The ids list_instances can give.
InstanceIds ==
    {<<"macos_", str(n - 1)>> : n \in 1..MaxWindows}
        \cup {<<"windows_", str(n - 1)>> : n \in 1..MaxWindows}

\* What the call leaves of the desktop.
DesktopAfter(r, d) == IF r.fronted = <<>> THEN d ELSE BringToFront(d, r.fronted[1])

\* The record of the call.
Focused(op, id, env, r) ==
    [op |-> op, id |-> id, ret |-> r.ret, attempted |-> r.attempted, tried |-> r.tried,
     raises |-> env.raises \cap {r.tried[n] : n \in 1..Len(r.tried)}, found |-> r.found,
     fallback |-> r.fallback, fronted |-> r.fronted]

\* No activation has been made: the desktop and the lists still change.
BeforeFocus == focus = NoFocus

\* The desktop changes and the lists are made before the activation.
DesktopChangesFirst(d) == BeforeFocus /\ DesktopChanges(d)
ListWindowsFirst(outcome) == BeforeFocus /\ ListWindows(outcome)
ListInstancesFirst(count_outcome, outcome) == BeforeFocus /\ ListInstances(count_outcome, outcome)

\* POST /windows/activate: activate_window(window_id).
ActivateWindow(window_id, env) ==
    /\ windows_imported
    /\ BeforeFocus
    /\ LET r == activate_window(_detected_os, _WINDOWS_AVAILABLE, window_id, env, desktop)
       IN /\ focus' = Focused("activate_window", window_id, env, r)
          /\ desktop' = DesktopAfter(r, desktop)
    /\ UNCHANGED <<windows_imported, _WINDOWS_AVAILABLE, instances_cache, enumerated,
                   detectorVars, moduleVars, callVars, threadVars, mouseVars, lockVars,
                   labelVars, idVars, voiceVars, chordVars>>

\* focus_instance(instance_id) of the instance manager.
FocusInstance(instance_id, env) ==
    /\ windows_imported
    /\ BeforeFocus
    /\ LET r == focus_instance(PlatformName, _WINDOWS_AVAILABLE, instance_id, env,
                               instances_cache, desktop)
       IN /\ focus' = Focused("focus_instance", instance_id, env, r)
          /\ desktop' = DesktopAfter(r, desktop)
    /\ UNCHANGED <<windows_imported, _WINDOWS_AVAILABLE, instances_cache, enumerated,
                   detectorVars, moduleVars, callVars, threadVars, mouseVars, lockVars,
                   labelVars, idVars, voiceVars, chordVars>>

(***************************************************************************)
(* Workspace labels                                                        *)
(***************************************************************************)

\* A title is a string of characters: a letter, the blank, the em dash and
\* the hyphen are the ones _extract_workspace_name tells apart.
TitleChars == {"a", " ", "\\u2014", "-"}
MaxTitle == 6
Titles == UNION {[1..n -> TitleChars] : n \in 0..MaxTitle}

\* No label computed yet.
NoLabel == <<"None">>

\* The string "Unknown".
Unknown == <<"U", "n", "k", "n", "o", "w", "n">>

\* The separators: blank, em dash, blank; and blank, hyphen, blank.
EmDashSep == <<" ", "\\u2014", " ">>
HyphenSep == <<" ", "-", " ">>

\* `sep in s`.
Contains(s, sep) ==
    \E n \in 1..Len(s) : n + Len(sep) - 1 <= Len(s) /\ SubSeq(s, n, n + Len(sep) - 1) = sep

\* s.find(sep), for a string that contains sep.
find(s, sep) ==
    CHOOSE n \in 1..Len(s) :
        /\ n + Len(sep) - 1 <= Len(s)
        /\ SubSeq(s, n, n + Len(sep) - 1) = sep
        /\ \A m \in 1..(n - 1) : SubSeq(s, m, m + Len(sep) - 1) # sep

\* s.split(sep): the pieces between the occurrences of sep, found left to
\* right, none overlapping another.
RECURSIVE split(_, _)
split(s, sep) ==
    IF ~Contains(s, sep) THEN <<s>>
    ELSE <<SubSeq(s, 1, find(s, sep) - 1)>>
             \o split(SubSeq(s, find(s, sep) + Len(sep), Len(s)), sep)

\* s.split(sep, 1): one split only.
SplitOnce(s, sep) ==
    IF ~Contains(s, sep) THEN <<s>>
    ELSE <<SubSeq(s, 1, find(s, sep) - 1), SubSeq(s, find(s, sep) + Len(sep), Len(s))>>

\* What str.isspace holds of, among the characters here: the unit separator
\* is one of them.
Whitespace == {" ", "\\t", "\\n", _ID_SEP}

\* s.strip(): the whitespace at both ends goes.
RECURSIVE lstrip(_)
lstrip(s) == IF s # <<>> /\ Head(s) \in Whitespace THEN lstrip(Tail(s)) ELSE s

RECURSIVE rstrip(_)
rstrip(s) == IF s # <<>> /\ s[Len(s)] \in Whitespace THEN rstrip(SubSeq(s, 1, Len(s) - 1)) ELSE s

strip(s) == rstrip(lstrip(s))

\* What the function would return if it split once only.
ExtractRest(title) ==
    IF Contains(title, EmDashSep) THEN strip(SplitOnce(title, EmDashSep)[2])
    ELSE IF Contains(title, HyphenSep) THEN strip(SplitOnce(title, HyphenSep)[2])
    ELSE Unknown

\* _extract_workspace_name: parts[1] of the split on the em dash separator,
\* else of the split on the hyphen separator, else "Unknown".
_extract_workspace_name(title) ==
    IF Contains(title, EmDashSep)
    THEN IF Len(split(title, EmDashSep)) >= 2
         THEN strip(split(title, EmDashSep)[2])
         ELSE Unknown
    ELSE IF Contains(title, HyphenSep)
    THEN IF Len(split(title, HyphenSep)) >= 2
         THEN strip(split(title, HyphenSep)[2])
         ELSE Unknown
    ELSE Unknown

\* The call of _extract_workspace_name: a pure function, one call shows it.
ExtractWorkspaceName(title) ==
    /\ workspace = NoLabel
    /\ window_title' = title
    /\ workspace' = _extract_workspace_name(title)
    /\ UNCHANGED <<detectorVars, moduleVars, callVars, threadVars, mouseVars, lockVars,
                   windowVars, idVars, focusVars, voiceVars, chordVars>>

(***************************************************************************)
(* Window ids on macOS, character by character                             *)
(***************************************************************************)

\* The characters of an output line or of an id that the code tells apart: a
\* letter, the blank, the tab, the unit separator and the double quote.
LineChars == {"a", " ", "\\t", _ID_SEP, "\""}
MaxLine == 5
Lines == UNION {[1..n -> LineChars] : n \in 0..MaxLine}

\* The string "missing value".
MissingValue == <<"m", "i", "s", "s", "i", "n", "g", " ", "v", "a", "l", "u", "e">>

\* The body of the loop over the output lines: the window made of one line,
\* or none.
WindowOfLine(line) ==
    LET stripped == strip(line)
        parts == SplitOnce(stripped, <<"\\t">>)
        app_name == strip(parts[1])
        title == IF Len(parts) > 1 THEN strip(parts[2]) ELSE <<>>
    IN IF stripped = <<>> THEN <<>>
       ELSE IF title = <<>> \/ title = MissingValue THEN <<>>
       ELSE <<[id |-> app_name \o <<_ID_SEP>> \o title, title |-> title, app |-> app_name]>>

\* title.replace("\\", "\\\\").replace('"', '\\"').
RECURSIVE escape(_)
escape(s) ==
    IF s = <<>> THEN <<>>
    ELSE (IF Head(s) \in {"\\", "\""} THEN <<"\\", Head(s)>> ELSE <<Head(s)>>) \o escape(Tail(s))

NoActivation == [window_id |-> <<>>, parsed |-> <<>>, script |-> <<>>, ret |-> "None"]

\* What osascript can do with the activation script: exit 0 with a clean
\* stderr, exit non-zero, exit 0 with "error" on stderr, or run out of time.
ActivationOutcomes == {"ok", "nonzero", "stderr", "timeout"}

\* window_id.split(_ID_SEP, 1).
SplitId(window_id) == SplitOnce(window_id, <<_ID_SEP>>)

\* _activate_macos: parsed is the pair the id was split into, script the
\* process name and the escaped title given to osascript (<<>>: none run).
_activate_macos(window_id, outcome) ==
    IF ~Contains(window_id, <<_ID_SEP>>)
    THEN [window_id |-> window_id, parsed |-> <<>>, script |-> <<>>, ret |-> "False"]
    ELSE [window_id |-> window_id,
          parsed |-> <<SplitId(window_id)[1], SplitId(window_id)[2]>>,
          script |-> <<SplitId(window_id)[1], escape(SplitId(window_id)[2])>>,
          ret |-> IF outcome = "ok" THEN "True" ELSE "False"]

\* activate_window where os_detector.is_macos holds.
activate_window_macos(window_id, outcome) ==
    IF window_id = <<>>
    THEN [window_id |-> window_id, parsed |-> <<>>, script |-> <<>>, ret |-> "False"]
    ELSE _activate_macos(window_id, outcome)

\* list_windows reads a line of the script's output.
ListLine(line) ==
    /\ osascript_line = <<>>
    /\ activation = NoActivation
    /\ line # <<>>
    /\ osascript_line' = line
    /\ listed' = WindowOfLine(line)
    /\ UNCHANGED <<activation, detectorVars, moduleVars, callVars, threadVars, mouseVars,
                   lockVars, windowVars, labelVars, focusVars, voiceVars, chordVars>>

\* POST /windows/activate with the id of the listed window.
ActivateListed(outcome) ==
    /\ listed # <<>>
    /\ activation = NoActivation
    /\ activation' = activate_window_macos(listed[1].id, outcome)
    /\ UNCHANGED <<osascript_line, listed, detectorVars, moduleVars, callVars, threadVars,
                   mouseVars, lockVars, windowVars, labelVars, focusVars, voiceVars, chordVars>>

\* POST /windows/activate with any id a client sends.
ActivateAny(window_id, outcome) ==
    /\ osascript_line = <<>>
    /\ activation = NoActivation
    /\ activation' = activate_window_macos(window_id, outcome)
    /\ UNCHANGED <<osascript_line, listed, detectorVars, moduleVars, callVars, threadVars,
                   mouseVars, lockVars, windowVars, labelVars, focusVars, voiceVars, chordVars>>

(***************************************************************************)
(* The voice processor.  Its constructor sets model_loaded and             *)
(* model_loading to False and starts a thread on load_model; requests call *)
(* transcribe_audio from other threads.  Reading and assigning an          *)
(* attribute are single steps.                                             *)
(***************************************************************************)

\* The sleeps of 0.5 s that fit into the 30 s of the wait.
MaxSleeps == 2

FAILED_TO_LOAD == "Whisper model failed to load"
STILL_LOADING == "Model still loading, please try again"

\* What transcribe_audio returns once the model is there.
TranscribeOutcomes ==
    {"Audio file not found", "Unsupported audio format", "success", "Transcription failed"}

NotCalled == [pc |-> "idle", sleeps |-> 0, ret |-> None]

\* Everything but the voice processor.
nonVoiceVars ==
    <<detectorVars, moduleVars, callVars, threadVars, mouseVars, lockVars, windowVars,
      labelVars, idVars, focusVars, chordVars>>

\* load_model: `if self.model_loading or self.model_loaded: return`.
LoadCheck ==
    /\ loader = "pending"
    /\ loader' = IF model_loading \/ model_loaded THEN "done" ELSE "begin"
    /\ UNCHANGED <<model_loaded, model_loading, transcribers, nonVoiceVars>>

\* self.model_loading = True.
LoadBegin ==
    /\ loader = "begin"
    /\ model_loading' = TRUE
    /\ loader' = "loading"
    /\ UNCHANGED <<model_loaded, transcribers, nonVoiceVars>>

\* whisper.load_model returns, and self.model_loaded = True; or it raises,
\* and the handler assigns False.
LoadModel(loaded) ==
    /\ loader = "loading"
    /\ model_loaded' = loaded
    /\ loader' = "finally"
    /\ UNCHANGED <<model_loading, transcribers, nonVoiceVars>>

\* finally: self.model_loading = False.
LoadFinally ==
    /\ loader = "finally"
    /\ model_loading' = FALSE
    /\ loader' = "done"
    /\ UNCHANGED <<model_loaded, transcribers, nonVoiceVars>>

\* Thread t goes on in transcribe_audio.
Proceed(t, pc1, sleeps, ret) ==
    /\ transcribers' = [transcribers EXCEPT ![t] = [pc |-> pc1, sleeps |-> sleeps, ret |-> ret]]
    /\ UNCHANGED <<model_loaded, model_loading, loader, nonVoiceVars>>

\* transcribe_audio is called: wait_start = time.time().
Transcribe(t) ==
    /\ transcribers[t].pc = "idle"
    /\ Proceed(t, "while", 0, None)

\* while self.model_loading and time.time() - wait_start < 30.
WhileLoading(t) ==
    /\ transcribers[t].pc = "while"
    /\ Proceed(t, IF model_loading /\ transcribers[t].sleeps < MaxSleeps
                  THEN "sleep" ELSE "if_loading",
               transcribers[t].sleeps, None)

\* time.sleep(0.5).
Sleep(t) ==
    /\ transcribers[t].pc = "sleep"
    /\ Proceed(t, "while", transcribers[t].sleeps + 1, None)

\* if self.model_loading: return "Model still loading, please try again".
IfLoading(t) ==
    /\ transcribers[t].pc = "if_loading"
    /\ IF model_loading
       THEN Proceed(t, "returned", transcribers[t].sleeps, STILL_LOADING)
       ELSE Proceed(t, "if_not_loaded", transcribers[t].sleeps, None)

\* if not self.model_loaded: return "Whisper model failed to load".
IfNotLoaded(t) ==
    /\ transcribers[t].pc = "if_not_loaded"
    /\ IF ~model_loaded
       THEN Proceed(t, "returned", transcribers[t].sleeps, FAILED_TO_LOAD)
       ELSE Proceed(t, "transcribe", transcribers[t].sleeps, None)

\* The rest of transcribe_audio, with the model.
WithModel(t, outcome) ==
    /\ transcribers[t].pc = "transcribe"
    /\ Proceed(t, "returned", transcribers[t].sleeps, outcome)

(***************************************************************************)
(* Key sequences from concurrent requests.  POST /simulate and             *)
(* POST /paste-text are plain functions, which the server runs on worker   *)
(* threads; each calls simulate_key_sequence on the one key_simulator.     *)
(* A step is the _simulate_key_action call, then the time.sleep call.      *)
(***************************************************************************)

NotRunning == [pc |-> "idle", key_sequence |-> <<>>, i |-> 0, ret |-> None]

\* What the requests run: the paste sequence and a button of one key.
RequestSequences(detected) ==
    {paste_key_sequence(detected), ButtonKeySequence("enter_button")}

\* Everything but the concurrent calls.
nonChordVars ==
    <<detectorVars, moduleVars, callVars, threadVars, mouseVars, lockVars, windowVars,
      labelVars, idVars, focusVars, voiceVars>>

\* A simulate_key_sequence that waits until no other call is running.
OneAtATime(t) == \A u \in Threads \ {t} : runners[u].pc \in {"idle", "returned"}

\* simulate_key_sequence takes no lock: a call starts whatever the other
\* calls are doing.
MayRun(t) == TRUE

\* Thread t calls simulate_key_sequence(seq).
RunSequence(t, seq) ==
    /\ current_os # None
    /\ runners[t].pc = "idle"
    /\ MayRun(t)
    /\ runners' = [runners EXCEPT ![t] =
           IF ~is_keyboard_available(PYNPUT_AVAILABLE, WINDOWS_API_AVAILABLE)
           THEN [pc |-> "returned", key_sequence |-> seq, i |-> 0, ret |-> "False"]
           ELSE [pc |-> "step", key_sequence |-> seq, i |-> 0, ret |-> None]]
    /\ UNCHANGED <<keyboard, nonChordVars>>

\* Thread t makes the _simulate_key_action call of its next step.
RunStep(t, fault) ==
    /\ runners[t].pc = "step"
    /\ LET n == runners[t].i + 1
           r == _simulate_key_action(runners[t].key_sequence[n][1],
                                     runners[t].key_sequence[n][2], current_os,
                                     WINDOWS_API_AVAILABLE, PYNPUT_AVAILABLE, fault)
       IN /\ keyboard' = keyboard \o [k \in 1..Len(r.events) |->
                                      [thread |-> t, key |-> r.events[k].key,
                                       ev |-> r.events[k].ev]]
          /\ runners' = [runners EXCEPT ![t] =
                 IF ContinueLoop(r.ok)
                 THEN [runners[t] EXCEPT !.pc = "sleep", !.i = n]
                 ELSE [runners[t] EXCEPT !.pc = "returned", !.ret = "False"]]
    /\ UNCHANGED nonChordVars

\* time.sleep returns in thread t.
RunWake(t) ==
    /\ runners[t].pc = "sleep"
    /\ runners' = [runners EXCEPT ![t] =
           IF runners[t].i = Len(runners[t].key_sequence)
           THEN [runners[t] EXCEPT !.pc = "returned", !.ret = "True"]
           ELSE [runners[t] EXCEPT !.pc = "step"]]
    /\ UNCHANGED <<keyboard, nonChordVars>>

(***************************************************************************)
(* The program                                                             *)
(***************************************************************************)

Init ==
    /\ _instance = None
    /\ _detected_os = None
    /\ writes = <<>>
    /\ observed = <<>>
    /\ imported = FALSE
    /\ PYNPUT_AVAILABLE = FALSE
    /\ WINDOWS_API_AVAILABLE = FALSE
    /\ current_os = None
    /\ pc = "idle"
    /\ key_sequence = <<>>
    /\ i = 0
    /\ attempted = <<>>
    /\ trace = <<>>
    /\ held = {}
    /\ result = None
    /\ answered = <<>>
    /\ sys_modules = "absent"
    /\ os_detector = None
    /\ instances = [t \in Threads |-> "absent"]
    /\ threads = [t \in Threads |-> NotStarted]
    /\ mouse_imported = FALSE
    /\ PYNPUT_MOUSE_AVAILABLE = FALSE
    /\ position = StartPosition
    /\ _initial_position = NoAnchor
    /\ last_move = <<>>
    /\ ops = 0
    /\ last = NoOperation
    /\ _movement_lock = None
    /\ callers = [t \in Threads |-> Outside]
    /\ windows_imported = FALSE
    /\ _WINDOWS_AVAILABLE = FALSE
    /\ desktop = <<>>
    /\ instances_cache = <<>>
    /\ enumerated = NotEnumerated
    /\ window_title = <<>>
    /\ workspace = NoLabel
    /\ osascript_line = <<>>
    /\ listed = <<>>
    /\ activation = NoActivation
    /\ focus = NoFocus
    /\ model_loaded = FALSE
    /\ model_loading = FALSE
    /\ loader = "pending"
    /\ transcribers = [t \in Threads |-> NotCalled]
    /\ runners = [t \in Threads |-> NotRunning]
    /\ keyboard = <<>>

\* The body of the key_simulator module: runs after `os_detector = OSDetector()`;
\* pynput imports or not, ctypes.windll is tried on Windows only.
ImportKeySimulator(pynput, windll) ==
    /\ _instance # None
    /\ ~imported
    /\ imported' = TRUE
    /\ PYNPUT_AVAILABLE' = pynput
    /\ WINDOWS_API_AVAILABLE' = (is_windows(_detected_os) /\ windll)
    /\ UNCHANGED <<current_os, detectorVars, callVars, otherVars>>

\* create_key_simulator(): KeySimulator.__init__ stores os_detector.current_os.
CreateKeySimulator ==
    /\ imported
    /\ current_os = None
    /\ current_os' = CurrentOsValue(_detected_os)
    /\ UNCHANGED <<imported, PYNPUT_AVAILABLE, WINDOWS_API_AVAILABLE,
                   detectorVars, callVars, otherVars>>

\* simulate_key_sequence(seq) up to its first step.
SimulateKeySequence(seq) ==
    /\ current_os # None
    /\ pc = "idle"
    /\ key_sequence' = seq
    /\ IF ~is_keyboard_available(PYNPUT_AVAILABLE, WINDOWS_API_AVAILABLE)
       THEN pc' = "done" /\ result' = "False"
       ELSE IF seq = <<>>
            THEN pc' = "done" /\ result' = "True"
            ELSE pc' = "step" /\ result' = None
    /\ UNCHANGED <<i, attempted, trace, held, detectorVars, moduleVars, otherVars>>

\* One turn of the loop: _simulate_key_action on step i + 1, then either the
\* return of False or the call of time.sleep.
Step(fault) ==
    /\ pc = "step"
    /\ LET n == i + 1
           key == key_sequence[n][1]
           action == key_sequence[n][2]
           r == _simulate_key_action(key, action, current_os,
                                     WINDOWS_API_AVAILABLE, PYNPUT_AVAILABLE, fault)
           issued == IF r.ok
                     THEN r.events
                     ELSE r.events \o OnStepFailure(key_sequence,
                                                    HeldAfterEvents(held, r.events))
       IN /\ attempted' = Append(attempted, [step |-> n, ok |-> r.ok])
          /\ held' = HeldAfterEvents(held, issued)
          /\ IF ContinueLoop(r.ok)
             THEN /\ i' = n
                  /\ trace' = Append(trace \o KeyEntries(issued, n),
                                     SleepEntry(n, StepDelay(_detected_os, action)))
                  /\ pc' = "sleep"
                  /\ result' = None
             ELSE /\ i' = i
                  /\ trace' = trace \o KeyEntries(issued, n)
                  /\ pc' = "done"
                  /\ result' = "False"
    /\ UNCHANGED <<key_sequence, detectorVars, moduleVars, otherVars>>

\* time.sleep returns: the next step, or the return of True after the last.
Wake ==
    /\ pc = "sleep"
    /\ IF i = Len(key_sequence)
       THEN pc' = "done" /\ result' = "True"
       ELSE pc' = "step" /\ result' = None
    /\ UNCHANGED <<key_sequence, i, attempted, trace, held, detectorVars, moduleVars,
                   otherVars>>

Next ==
    \/ \E s \in SystemNames : New(s)
    \/ \E s \in SystemNames : DetectOs(s)
    \/ \E s \in SystemNames : ReadProperties(s)
    \/ \E p \in BOOLEAN, w \in BOOLEAN : ImportKeySimulator(p, w)
    \/ CreateKeySimulator
    \/ \E seq \in InputSequences(_detected_os) : SimulateKeySequence(seq)
    \/ \E fault \in 0..2 : Step(fault)
    \/ Wake

Spec == Init /\ [][Next]_vars

\* The mouse executors, called one after the other.
NextMouse ==
    \/ \E p \in BOOLEAN : ImportMouse(p)
    \/ \E f \in 0..1 : OnStart(f)
    \/ \E xy \in JoyInputs, f \in 0..2 : OnMove(xy[1], xy[2], f)
    \/ OnEnd
    \/ \E xy \in JoyInputs, f \in 0..2 : MoveMouse(xy[1], xy[2], f)
    \/ \E d \in Offsets, f \in 0..1 : MoveRelative(d[1], d[2], f)
    \/ \E b \in MouseButtons, f \in 0..1 : Click(b, f)
    \/ \E f \in 0..1 : ClickLeftButton(f)
    \/ \E f \in 0..1 : ClickRightButton(f)

SpecMouse == Init /\ [][NextMouse]_vars

\* The gesture executor, called by threads.
NextGesture ==
    \/ \E p \in BOOLEAN : ImportMouse(p)
    \/ \E t \in Threads : EnterOnStart(t)
    \/ \E t \in Threads, xy \in JoyInputs : EnterOnMove(t, xy[1], xy[2])
    \/ \E t \in Threads : EnterOnEnd(t)
    \/ \E t \in Threads : Check(t)
    \/ \E t \in Threads : Acquire(t)
    \/ \E t \in Threads : StartLocked(t)
    \/ \E t \in Threads : MoveLocked(t)
    \/ \E t \in Threads : EndLocked(t)

SpecGesture == Init /\ [][NextGesture]_vars

\* The window enumeration, on the platform the detector found.
NextWindows ==
    \/ \E s \in SystemNames : New(s)
    \/ \E w \in BOOLEAN : ImportWindows(w)
    \/ \E d \in Desktops : DesktopChanges(d)
    \/ \E o \in OsascriptOutcomes \cup EnumWindowsOutcomes : ListWindows(o)
    \/ \E c \in OsascriptOutcomes \cup EnumWindowsOutcomes,
          o \in OsascriptOutcomes \cup EnumWindowsOutcomes : ListInstances(c, o)

SpecWindows == Init /\ [][NextWindows]_vars

\* Enumeration on a changing desktop, then one activation.
NextActivation ==
    \/ \E s \in {"Darwin", "Windows", "Linux"} : New(s)
    \/ \E w \in BOOLEAN : ImportWindows(w)
    \/ \E d \in Desktops : DesktopChangesFirst(d)
    \/ \E o \in OsascriptOutcomes \cup EnumWindowsOutcomes : ListWindowsFirst(o)
    \/ \E c \in OsascriptOutcomes \cup EnumWindowsOutcomes,
          o \in OsascriptOutcomes \cup EnumWindowsOutcomes : ListInstancesFirst(c, o)
    \/ \E window_id \in WindowIds, env \in Envs : ActivateWindow(window_id, env)
    \/ \E instance_id \in InstanceIds, env \in Envs : FocusInstance(instance_id, env)

SpecActivation == Init /\ [][NextActivation]_vars

\* The voice processor: the loading thread and the requests.
NextVoice ==
    \/ LoadCheck
    \/ LoadBegin
    \/ \E loaded \in BOOLEAN : LoadModel(loaded)
    \/ LoadFinally
    \/ \E t \in Threads : Transcribe(t)
    \/ \E t \in Threads : WhileLoading(t)
    \/ \E t \in Threads : Sleep(t)
    \/ \E t \in Threads : IfLoading(t)
    \/ \E t \in Threads : IfNotLoaded(t)
    \/ \E t \in Threads, outcome \in TranscribeOutcomes : WithModel(t, outcome)

SpecVoice == Init /\ [][NextVoice]_vars

\* Key sequences from concurrent requests.
NextChords ==
    \/ \E s \in SystemNames : New(s)
    \/ \E p \in BOOLEAN, w \in BOOLEAN : ImportKeySimulator(p, w)
    \/ CreateKeySimulator
    \/ \E t \in Threads, seq \in RequestSequences(_detected_os) : RunSequence(t, seq)
    \/ \E t \in Threads, fault \in 0..1 : RunStep(t, fault)
    \/ \E t \in Threads : RunWake(t)

SpecChords == Init /\ [][NextChords]_vars

\* The label extraction, on every title.
NextLabel == \E title \in Titles : ExtractWorkspaceName(title)

SpecLabel == Init /\ [][NextLabel]_vars

\* Window ids on macOS: a line is listed and its id activated, or a client's
\* id is activated.
NextIds ==
    \/ \E line \in Lines : ListLine(line)
    \/ \E outcome \in ActivationOutcomes : ActivateListed(outcome)
    \/ \E window_id \in Lines, outcome \in ActivationOutcomes : ActivateAny(window_id, outcome)

SpecIds == Init /\ [][NextIds]_vars

(***************************************************************************)
(* Properties of the key sequence executor                                 *)
(***************************************************************************)

\* The key events a step asks for: a press is a down and an up of its key.
StepEvents(step) ==
    CASE step[2] = "down" -> << <<step[1], "down">> >>
      [] step[2] = "up" -> << <<step[1], "up">> >>
      [] step[2] = "press" -> << <<step[1], "down">>, <<step[1], "up">> >>
      [] OTHER -> <<>>

\* The key events the first n steps of seq ask for, in order.
RECURSIVE ExpectedEvents(_, _)
ExpectedEvents(seq, n) ==
    IF n = 0 THEN <<>> ELSE ExpectedEvents(seq, n - 1) \o StepEvents(seq[n])

KeyEntriesOf(t) == SelectSeq(t, LAMBDA e : e.op = "key")

\* The key events that reached a backend, as <<key, event>> pairs.
IssuedEvents ==
    LET ks == KeyEntriesOf(trace)
    IN [n \in 1..Len(ks) |-> <<ks[n].key, ks[n].ev>>]

IsPrefix(a, b) == Len(a) <= Len(b) /\ SubSeq(b, 1, Len(a)) = a

\* Events of the step that failed, when it failed after its first backend call.
FailedStepEvents ==
    SubSeq(IssuedEvents, Len(ExpectedEvents(key_sequence, i)) + 1, Len(IssuedEvents))

\* C1: the key events reach the backend in exactly the order of the input
\* steps: at every moment they are the events of the steps that succeeded, in
\* input order, followed by nothing but the events a failing step issued
\* before it failed; a call that returns True has issued the events of the
\* whole sequence, none reordered, merged, duplicated or skipped.
C1_OrderPreserved ==
    /\ IsPrefix(ExpectedEvents(key_sequence, i), IssuedEvents)
    /\ FailedStepEvents # <<>> =>
          /\ i < Len(key_sequence)
          /\ IsPrefix(FailedStepEvents, StepEvents(key_sequence[i + 1]))
    /\ result = "True" =>
          IssuedEvents = ExpectedEvents(key_sequence, Len(key_sequence))

C1_Witness ==
    /\ key_sequence = ButtonKeySequence("stop_button")
    /\ result = "True"
    /\ Len(IssuedEvents) = 6

\* C2: when step k fails the call returns False and no step after k is
\* attempted: the attempts are steps 1..k, each once, only the last one may
\* have failed, and no backend event or sleep belongs to a later step; a
\* 4-step sequence failing at step 2 has exactly two attempts.
C2_AbortOnFailure ==
    /\ \A n \in 1..Len(attempted) : attempted[n].step = n
    /\ \A n \in 1..Len(attempted) : ~attempted[n].ok =>
          /\ n = Len(attempted)
          /\ pc = "done"
          /\ result = "False"
          /\ \A m \in 1..Len(trace) : trace[m].step <= n
          /\ \A m \in 1..Len(trace) : trace[m].op = "sleep" => trace[m].step < n
    /\ (Len(key_sequence) = 4 /\ Len(attempted) >= 2 /\ ~attempted[2].ok) =>
          Len(attempted) = 2

C2_Witness ==
    /\ Len(key_sequence) = 4
    /\ Len(attempted) = 2
    /\ ~attempted[2].ok
    /\ pc = "done"
    /\ result = "False"

\* The keys held down after the first n steps of seq all succeeded.
RECURSIVE HeldAfter(_, _)
HeldAfter(seq, n) ==
    IF n = 0
    THEN {}
    ELSE IF seq[n][2] = "down"
         THEN HeldAfter(seq, n - 1) \cup {seq[n][1]}
         ELSE IF seq[n][2] \in {"up", "press"}
              THEN HeldAfter(seq, n - 1) \ {seq[n][1]}
              ELSE HeldAfter(seq, n - 1)

\* C3: no key-up is issued that the input does not ask for, and the keys held
\* down are exactly those pressed down by an executed step and not released
\* by an executed one: the keys the succeeded steps leave down, plus the key
\* of a failing press whose down was issued; nothing is released on abort.
C3_NoAutoRelease ==
    /\ \A n \in 1..Len(trace) :
          (trace[n].op = "key" /\ trace[n].ev = "up") =>
             /\ key_sequence[trace[n].step][1] = trace[n].key
             /\ key_sequence[trace[n].step][2] \in {"up", "press"}
    /\ held = HeldAfter(key_sequence, i)
                \cup {FailedStepEvents[n][1] : n \in 1..Len(FailedStepEvents)}

C3_Witness ==
    /\ pc = "done"
    /\ result = "False"
    /\ Len(key_sequence) >= 3
    /\ key_sequence[1] = <<"ctrl", "down">>
    /\ Len(attempted) = 2
    /\ held = {"ctrl"}

\* The precedence rule of the executor: a step goes to the native API when the
\* platform is Windows, the API is available and the key has a virtual-key code.
NativeApplies(key) ==
    /\ current_os # None
    /\ Value(current_os) = "Windows"
    /\ WINDOWS_API_AVAILABLE
    /\ _get_windows_vk_code(key) # 0

\* C4: backend precedence per step: every key event of a step to which the
\* native rule applies is issued through the native API, and every other key
\* event through pynput.
C4_NativePrecedence ==
    \A n \in 1..Len(trace) :
       trace[n].op = "key" =>
          trace[n].via = (IF NativeApplies(trace[n].key) THEN "native" ELSE "pynput")

\* C5: with no backend at all the call returns False before its first step;
\* a step that no backend can issue (pynput missing and the native rule not
\* applying to its key) fails, the call returns False, and no key event is
\* issued for that step or a later one.
C5_NoUsableBackend ==
    /\ (pc # "idle" /\ ~PYNPUT_AVAILABLE /\ ~WINDOWS_API_AVAILABLE) =>
          /\ pc = "done"
          /\ result = "False"
          /\ attempted = <<>>
          /\ trace = <<>>
    /\ \A n \in 1..Len(attempted) :
          (~PYNPUT_AVAILABLE /\ ~NativeApplies(key_sequence[n][1])) =>
             /\ ~attempted[n].ok
             /\ pc = "done"
             /\ result = "False"
             /\ \A m \in 1..Len(trace) : trace[m].op = "key" => trace[m].step < n

C5_Witness ==
    /\ WINDOWS_API_AVAILABLE
    /\ ~PYNPUT_AVAILABLE
    /\ Len(key_sequence) = 2
    /\ key_sequence[1][1] = "1"
    /\ Len(attempted) = 1
    /\ pc = "done"

\* What the first n steps of seq put on the trace when each succeeds: the
\* step's key events, then one sleep of get_os_specific_delay(its action).
RECURSIVE ExpectedTrace(_, _, _)
ExpectedTrace(seq, n, detected) ==
    IF n = 0
    THEN <<>>
    ELSE ExpectedTrace(seq, n - 1, detected)
            \o [m \in 1..Len(StepEvents(seq[n])) |->
                   <<StepEvents(seq[n])[m][2], StepEvents(seq[n])[m][1]>>]
            \o << <<"sleep", get_os_specific_delay(detected, seq[n][2])>> >>

\* The trace as <<"down" | "up", key>> and <<"sleep", ms>> pairs.
Timeline ==
    [n \in 1..Len(trace) |->
        IF trace[n].op = "sleep"
        THEN <<"sleep", trace[n].ms>>
        ELSE <<trace[n].ev, trace[n].key>>]

\* C6: every step that succeeds is followed by exactly one sleep of
\* get_os_specific_delay(its action) before the next step's event, and no
\* event is issued while the call sleeps; the paste sequence on a platform
\* other than macOS yields down(ctrl), 10 ms, press(v), 10 ms, up(ctrl), 10 ms
\* and returns True when no step fails.
C6_DelayAfterEveryStep ==
    /\ IsPrefix(ExpectedTrace(key_sequence, i, _detected_os), Timeline)
    /\ \A n \in Len(ExpectedTrace(key_sequence, i, _detected_os)) + 1 .. Len(trace) :
          trace[n].op = "key"
    /\ pc = "sleep" => Timeline = ExpectedTrace(key_sequence, i, _detected_os)
    /\ (/\ pc = "done"
        /\ ~is_macos(_detected_os)
        /\ key_sequence = << <<"ctrl", "down">>, <<"v", "press">>, <<"ctrl", "up">> >>
        /\ Len(attempted) = 3
        /\ attempted[3].ok) =>
          /\ result = "True"
          /\ Timeline = << <<"down", "ctrl">>, <<"sleep", 10>>,
                           <<"down", "v">>, <<"up", "v">>, <<"sleep", 10>>,
                           <<"up", "ctrl">>, <<"sleep", 10>> >>

C6_Witness ==
    /\ pc = "done"
    /\ result = "True"
    /\ ~is_macos(_detected_os)
    /\ key_sequence = << <<"ctrl", "down">>, <<"v", "press">>, <<"ctrl", "up">> >>
    /\ Len(trace) = 7

Modifiers == {"ctrl", "shift", "alt", "option", "cmd"}

\* C7: on macOS the sleep after a down or up of a modifier key is 50 ms and
\* the sleep after every other step is 30 ms; on every other platform every
\* sleep is 10 ms.
C7_TimingTable ==
    \A n \in 1..Len(trace) :
       trace[n].op = "sleep" =>
          trace[n].ms =
             (IF Value(CurrentOsValue(_detected_os)) = "Darwin"
              THEN (IF /\ key_sequence[trace[n].step][2] \in {"down", "up"}
                       /\ key_sequence[trace[n].step][1] \in Modifiers
                    THEN 50
                    ELSE 30)
              ELSE 10)

ChordOf(modifier, letter) ==
    << <<modifier, "down">>, <<letter, "press">>, <<modifier, "up">> >>

\* C8: on every platform the paste, copy and select-all sequences are
\* [modifier down, letter press, modifier up] with the modifier equal to
\* modifier_key, which is cmd on macOS and ctrl on every other platform.
C8_ModifierMatches ==
    _instance # None =>
       /\ modifier_key(_detected_os)
             = (IF Value(CurrentOsValue(_detected_os)) = "Darwin" THEN "cmd" ELSE "ctrl")
       /\ paste_key_sequence(_detected_os) = ChordOf(modifier_key(_detected_os), "v")
       /\ copy_key_sequence(_detected_os) = ChordOf(modifier_key(_detected_os), "c")
       /\ select_all_key_sequence(_detected_os) = ChordOf(modifier_key(_detected_os), "a")

C8_Witness ==
    /\ is_macos(_detected_os)
    /\ key_sequence = paste_key_sequence(_detected_os)
    /\ result = "True"
    /\ IssuedEvents[1] = <<"cmd", "down">>

\* The named actions of the catalog that use the platform modifier.
NamedActions == {"paste_button", "accept_button", "reject_button", "new_button",
                 "stop_button", "copy_paste_button", "copy_paste_enter_button"}

\* C9: for every named action and every platform, the platform modifier in
\* the button's key sequence, as issued to the backend when the button's
\* sequence is executed, is the detector's modifier_key.
C9_CatalogUsesModifierKey ==
    \A b \in NamedActions :
       key_sequence = ButtonKeySequence(b) =>
          \A n \in 1..Len(trace) :
             (trace[n].op = "key" /\ trace[n].key \in {"ctrl", "cmd"}) =>
                trace[n].key = modifier_key(_detected_os)

\* C10: once the platform has been detected it does not change: the memoized
\* value, the value KeySimulator stored, and every read of current_os,
\* is_macos, is_windows, is_linux and modifier_key are those of the first
\* detection.
C10_PlatformNeverChanges ==
    writes # <<>> =>
       /\ _detected_os = writes[1]
       /\ current_os \in {None, writes[1]}
       /\ \A n \in 1..Len(observed) :
             /\ observed[n].current_os = writes[1]
             /\ observed[n].is_macos = (Value(writes[1]) = "Darwin")
             /\ observed[n].is_windows = (Value(writes[1]) = "Windows")
             /\ observed[n].is_linux = (Value(writes[1]) = "Linux")
             /\ observed[n].modifier_key
                   = (IF Value(writes[1]) = "Darwin" THEN "cmd" ELSE "ctrl")

C10_Witness ==
    /\ Len(observed) = MaxReads
    /\ writes = <<MACOS>>
    /\ pc = "done"

(***************************************************************************)
(* os_detector.py under threads.  A thread imports the module and then     *)
(* calls OSDetector() or reads os_detector.current_os; every line of       *)
(* __new__, _detect_os and current_os is a step of its own, and nothing in *)
(* them takes a lock.  The import system runs a module body once, in the   *)
(* first thread that imports it, and makes the other importers wait.       *)
(***************************************************************************)

\* What the detector's own code does not touch.
nonThreadVars == <<_detected_os, observed, answered, moduleVars, callVars, mouseVars,
                   lockVars, windowVars, laterVars>>

Calls == {"OSDetector", "current_os"}

\* The module body without its last statement.
LazyInstance == FALSE

\* The last statement of the module body is `os_detector = OSDetector()`.
EagerInstance == TRUE

Goto(t, label) == [threads EXCEPT ![t].pc = label]

\* `import os_detector`: the first importer runs the module body, an importer
\* that finds the module being loaded waits, a later one gets the module.
Import(t) ==
    /\ threads[t].pc = "start"
    /\ CASE sys_modules = "absent" ->
                /\ sys_modules' = "loading"
                /\ threads' = [threads EXCEPT ![t].pc = "class_body", ![t].call = "module"]
         [] sys_modules = "loading" ->
                /\ threads' = [threads EXCEPT ![t].pc = "waiting", ![t].waited = TRUE]
                /\ UNCHANGED sys_modules
         [] OTHER ->
                /\ threads' = Goto(t, "imported")
                /\ UNCHANGED sys_modules
    /\ UNCHANGED <<_instance, writes, os_detector, instances, nonThreadVars>>

\* The importer that waited gets the module once its body has run.
Imported(t) ==
    /\ threads[t].pc = "waiting"
    /\ sys_modules = "loaded"
    /\ threads' = Goto(t, "imported")
    /\ UNCHANGED <<_instance, writes, sys_modules, os_detector, instances,
                   nonThreadVars>>

\* The class statement, then the module's own OSDetector() call.
ClassBody(t) ==
    /\ threads[t].pc = "class_body"
    /\ _instance' = None
    /\ IF EagerInstance
       THEN /\ threads' = Goto(t, "new_check")
            /\ UNCHANGED sys_modules
       ELSE /\ threads' = Goto(t, "imported")
            /\ sys_modules' = "loaded"
    /\ UNCHANGED <<writes, os_detector, instances, nonThreadVars>>

\* A thread that has the module calls OSDetector() or reads
\* os_detector.current_os.
Call(t, c) ==
    /\ threads[t].pc = "imported"
    /\ threads[t].call \in {None, "module"}
    /\ c = "current_os" => os_detector # None
    /\ threads' = [threads EXCEPT ![t].call = c,
                                  ![t].pc = IF c = "OSDetector" THEN "new_check"
                                            ELSE "cur_check"]
    /\ UNCHANGED <<_instance, writes, sys_modules, os_detector, instances,
                   nonThreadVars>>

\* __new__: if cls._instance is None
NewCheck(t) ==
    /\ threads[t].pc = "new_check"
    /\ threads' = Goto(t, IF _instance = None THEN "new_create" ELSE "new_return")
    /\ UNCHANGED <<_instance, writes, sys_modules, os_detector, instances,
                   nonThreadVars>>

\* __new__: cls._instance = super().__new__(cls); the new object has no
\* _detected_os of its own and reads the class attribute, None.
NewCreate(t) ==
    /\ threads[t].pc = "new_create"
    /\ instances' = [instances EXCEPT ![t] = None]
    /\ _instance' = t
    /\ threads' = Goto(t, "new_detect")
    /\ UNCHANGED <<writes, sys_modules, os_detector, nonThreadVars>>

\* __new__: cls._instance._detect_os(), on what cls._instance is now.
NewDetect(t) ==
    /\ threads[t].pc = "new_detect"
    /\ threads' = [threads EXCEPT ![t].self = _instance, ![t].pc = "detect_check"]
    /\ UNCHANGED <<_instance, writes, sys_modules, os_detector, instances,
                   nonThreadVars>>

\* Where _detect_os returns to.
AfterDetect(t) == IF threads[t].call = "current_os" THEN "cur_return" ELSE "new_return"

\* _detect_os: if self._detected_os is None
DetectCheck(t) ==
    /\ threads[t].pc = "detect_check"
    /\ threads' = Goto(t, IF instances[threads[t].self] = None
                          THEN "detect_system" ELSE AfterDetect(t))
    /\ UNCHANGED <<_instance, writes, sys_modules, os_detector, instances,
                   nonThreadVars>>

\* _detect_os: system_name = platform.system()
DetectSystem(t, name) ==
    /\ threads[t].pc = "detect_system"
    /\ threads' = [threads EXCEPT ![t].system_name = name, ![t].pc = "detect_assign"]
    /\ UNCHANGED <<_instance, writes, sys_modules, os_detector, instances,
                   nonThreadVars>>

\* _detect_os: self._detected_os = OperatingSystem(system_name), or LINUX.
DetectAssign(t) ==
    /\ threads[t].pc = "detect_assign"
    /\ instances' = [instances EXCEPT
                         ![threads[t].self] = OperatingSystemOf(threads[t].system_name)]
    /\ writes' = IF Len(writes) < 3
                 THEN Append(writes, OperatingSystemOf(threads[t].system_name))
                 ELSE writes
    /\ threads' = Goto(t, AfterDetect(t))
    /\ UNCHANGED <<_instance, sys_modules, os_detector, nonThreadVars>>

\* __new__: return cls._instance; the module body binds it to os_detector and
\* the module is loaded.
NewReturn(t) ==
    /\ threads[t].pc = "new_return"
    /\ IF threads[t].call = "module"
       THEN /\ os_detector' = _instance
            /\ sys_modules' = "loaded"
            /\ threads' = [threads EXCEPT ![t].pc = "imported", ![t].self = None,
                                          ![t].system_name = None]
       ELSE /\ threads' = [threads EXCEPT ![t].ret = _instance, ![t].pc = "done"]
            /\ UNCHANGED <<os_detector, sys_modules>>
    /\ UNCHANGED <<_instance, writes, instances, nonThreadVars>>

\* current_os: if self._detected_os is None: self._detect_os()
CurCheck(t) ==
    /\ threads[t].pc = "cur_check"
    /\ threads' = [threads EXCEPT ![t].self = os_detector,
                                  ![t].pc = IF instances[os_detector] = None
                                            THEN "detect_check" ELSE "cur_return"]
    /\ UNCHANGED <<_instance, writes, sys_modules, os_detector, instances,
                   nonThreadVars>>

\* current_os: return self._detected_os or OperatingSystem.LINUX
CurReturn(t) ==
    /\ threads[t].pc = "cur_return"
    /\ threads' = [threads EXCEPT ![t].ret = CurrentOsValue(instances[threads[t].self]),
                                  ![t].pc = "done"]
    /\ UNCHANGED <<_instance, writes, sys_modules, os_detector, instances,
                   nonThreadVars>>

NextThreads ==
    \/ \E t \in Threads : Import(t)
    \/ \E t \in Threads : Imported(t)
    \/ \E t \in Threads : ClassBody(t)
    \/ \E t \in Threads, c \in Calls : Call(t, c)
    \/ \E t \in Threads : NewCheck(t)
    \/ \E t \in Threads : NewCreate(t)
    \/ \E t \in Threads : NewDetect(t)
    \/ \E t \in Threads : DetectCheck(t)
    \/ \E t \in Threads, name \in SystemNames : DetectSystem(t, name)
    \/ \E t \in Threads : DetectAssign(t)
    \/ \E t \in Threads : NewReturn(t)
    \/ \E t \in Threads : CurCheck(t)
    \/ \E t \in Threads : CurReturn(t)

SpecThreads == Init /\ [][NextThreads]_vars

(***************************************************************************)
(* Properties of the detector under threads                                *)
(***************************************************************************)

\* OSDetector objects made so far.
Created == {t \in Threads : instances[t] # "absent"}

\* Positions between the `is None` test of __new__ and the end of _detect_os.
Initialising == {"new_create", "new_detect", "detect_check", "detect_system",
                 "detect_assign"}

\* C11: whatever number of threads import the module and call OSDetector() or
\* read current_os, and however their steps interleave, one OSDetector object
\* is made, _detected_os is assigned once, the thread that does both is the
\* one running the module body while the other importers wait, and every
\* caller gets that one object, or the one value assigned.
C11_SingleInitialisation ==
    /\ Cardinality(Created) <= 1
    /\ Len(writes) <= 1
    /\ \A t \in Threads :
           threads[t].pc \in Initialising
               => sys_modules = "loading" /\ threads[t].call = "module"
    /\ \A t \in Threads :
           threads[t].pc = "done"
               => /\ Len(writes) = 1
                  /\ Created = {os_detector}
                  /\ threads[t].call = "OSDetector" => threads[t].ret = os_detector
                  /\ threads[t].call = "current_os" => threads[t].ret = writes[1]

\* A thread waited for the import while another ran the module body; one then
\* called OSDetector() and the other read current_os, and both have returned.
C11_Witness ==
    \E t1 \in Threads, t2 \in Threads :
        /\ threads[t1].pc = "done" /\ threads[t1].call = "OSDetector"
        /\ threads[t2].pc = "done" /\ threads[t2].call = "current_os"
        /\ threads[t1].waited \/ threads[t2].waited
        /\ Len(writes) = 1

(***************************************************************************)
(* Properties of the detector on a platform it has no member for           *)
(***************************************************************************)

\* Names platform.system() answers that the detector has a platform for.
RecognisedNames == {"Windows", "Darwin", "Linux"}

\* Every action type the executor passes to get_os_specific_delay.
DelayActions == Actions \cup {"default"}

\* What the claim calls behaving as Linux, for the modifier, the three
\* sequences and the delay.
LinuxBehaviour(detected) ==
    /\ modifier_key(detected) = "ctrl"
    /\ paste_key_sequence(detected) = << <<"ctrl", "down">>, <<"v", "press">>, <<"ctrl", "up">> >>
    /\ copy_key_sequence(detected) = << <<"ctrl", "down">>, <<"c", "press">>, <<"ctrl", "up">> >>
    /\ select_all_key_sequence(detected)
           = << <<"ctrl", "down">>, <<"a", "press">>, <<"ctrl", "up">> >>
    /\ \A a \in DelayActions : get_os_specific_delay(detected, a) = 10

\* The detection memoized the answer to a name that is not a recognised one.
UnrecognisedDetected ==
    /\ Len(answered) > 0
    /\ answered[Len(answered)] \notin RecognisedNames
    /\ _detected_os = writes[Len(writes)]

\* C12, as stated: after a detection that platform.system() answered with a
\* name that is not a recognised platform name, every read of current_os is
\* Linux, the modifier is ctrl, paste, copy and select-all use ctrl and the
\* delay is 10 ms.
C12_UnrecognisedIsLinux ==
    UnrecognisedDetected
        => /\ LinuxBehaviour(_detected_os)
           /\ \A r \in 1..Len(observed) :
                  /\ observed[r].current_os = LINUX
                  /\ observed[r].modifier_key = "ctrl"

\* C12, amended: after such a detection the modifier, the sequences and the
\* delay are those of Linux and no read says macOS or Windows; current_os is
\* Linux for every such name but "Unknown", the value of the member UNKNOWN,
\* for which current_os is UNKNOWN and is_linux is False.
C12_UnrecognisedBehavesAsLinux ==
    UnrecognisedDetected
        => /\ LinuxBehaviour(_detected_os)
           /\ \A r \in 1..Len(observed) :
                  /\ observed[r].modifier_key = "ctrl"
                  /\ ~observed[r].is_macos /\ ~observed[r].is_windows
                  /\ IF answered[Len(answered)] = "Unknown"
                     THEN observed[r].current_os = UNKNOWN /\ ~observed[r].is_linux
                     ELSE observed[r].current_os = LINUX /\ observed[r].is_linux

\* A name without member was answered, memoized and read back.
C12_Witness ==
    /\ Len(writes) = 1
    /\ answered[1] = "FreeBSD"
    /\ Len(observed) > 0
    /\ observed[Len(observed)].current_os = LINUX
    /\ observed[Len(observed)].modifier_key = "ctrl"

(***************************************************************************)
(* Properties of the gesture executor                                      *)
(***************************************************************************)

\* The float k/64 is within the dead-zone threshold: |k/64| < 0.05.
Inside(k) == 20 * Abs(k) < 64

\* d is the fraction num/den without its fractional part: nearer to zero
\* than num/den by less than one, and not on the other side of zero.
IsTruncation(d, num, den) ==
    /\ Abs(d) * den <= Abs(num)
    /\ Abs(num) < (Abs(d) + 1) * den
    /\ d * num >= 0

\* The last operation was an on_move that found a gesture and a backend that
\* works.
MovedInGesture ==
    /\ last.op = "on_move"
    /\ PYNPUT_MOUSE_AVAILABLE
    /\ last.anchorBefore # NoAnchor
    /\ last.fault = 0

\* C13: an on_move that finds no gesture (the anchor is None) returns False,
\* leaves the cursor where it was and the anchor unset, and raises nothing,
\* whatever x and y are.
C13_MoveWithoutGesture ==
    (last.op = "on_move" /\ last.anchorBefore = NoAnchor)
        => /\ last.ret = "False"
           /\ last.posAfter = last.posBefore
           /\ last.anchorAfter = NoAnchor

\* on_move was called outside the dead zone after the gesture was ended.
C13_Witness ==
    /\ last.op = "on_move"
    /\ last.anchorBefore = NoAnchor
    /\ PYNPUT_MOUSE_AVAILABLE
    /\ ~Inside(last.x)
    /\ ops = MaxOps

\* C14: an on_move with |x| < 0.05 and |y| < 0.05 changes neither the cursor
\* nor the anchor, gesture or not; one with a single coordinate under the
\* threshold, in a gesture, sets the cursor, away from the anchor.
C14_DeadZone ==
    /\ (last.op = "on_move" /\ Inside(last.x) /\ Inside(last.y))
           => /\ last.posAfter = last.posBefore
              /\ last.anchorAfter = last.anchorBefore
    /\ (MovedInGesture /\ Inside(last.x) # Inside(last.y))
           => /\ last.ret = "True"
              /\ last.posAfter # last.anchorBefore
              /\ last.anchorAfter = last.anchorBefore

\* In a gesture that has moved the cursor, an on_move in the dead zone.
C14_Witness ==
    /\ MovedInGesture
    /\ Inside(last.x) /\ Inside(last.y)
    /\ last.ret = "True"
    /\ last.posBefore # last.anchorBefore

\* C15, as stated: an on_move outside the dead zone sets the cursor to
\* A + (x * S, -y * S), A the anchor and S the sensitivity.
C15_ExactTarget ==
    (MovedInGesture /\ ~(Inside(last.x) /\ Inside(last.y)))
        => /\ 64 * (last.posAfter[1] - last.anchorBefore[1]) = last.x * _sensitivity
           /\ 64 * (last.posAfter[2] - last.anchorBefore[2]) = -last.y * _sensitivity

\* C15, amended: an on_move outside the dead zone returns True and sets the
\* cursor to A + (int(x * S), int(-y * S)): each offset without its
\* fractional part, Y inverted and X not, from the anchor and not from where
\* the cursor is.
C15_TruncatedTarget ==
    (MovedInGesture /\ ~(Inside(last.x) /\ Inside(last.y)))
        => /\ last.ret = "True"
           /\ IsTruncation(last.posAfter[1] - last.anchorBefore[1],
                           last.x * _sensitivity, 64)
           /\ IsTruncation(last.posAfter[2] - last.anchorBefore[2],
                           -last.y * _sensitivity, 64)

\* An on_move whose offsets have a fractional part, called while the cursor
\* was away from the anchor.
C15_Witness ==
    /\ MovedInGesture
    /\ last.x = -5 /\ last.y = 5
    /\ last.posBefore # last.anchorBefore
    /\ last.posAfter = <<last.anchorBefore[1] - 31, last.anchorBefore[2] - 31>>

\* The operations that move the cursor.
MoveOps == {"on_move", "move_mouse", "move_relative"}

\* The operation just called is the one called before it, with the same
\* arguments, and both returned True.
Repeated ==
    /\ ops' = ops + 1
    /\ last'.op \in MoveOps
    /\ last'.op = last.op /\ last'.x = last.x /\ last'.y = last.y
    /\ last'.ret = "True" /\ last.ret = "True"
    /\ last'.anchorBefore = last.anchorBefore

\* C16, as stated: for every operation that moves the mouse, repeating a move
\* leaves the cursor where the first one put it.
C16_NoDriftAnyMove == [][Repeated => position' = position]_vars

\* C16, amended: during a gesture the cursor is where the last on_move outside
\* the dead zone put it, a position computed from the anchor alone, however
\* many on_move calls came before and after it; move_mouse and move_relative
\* add to the cursor position and are not covered.
C16_NoDriftOnMove ==
    (_initial_position # NoAnchor /\ last_move # <<>>)
        => position = Target(_initial_position, last_move[1], last_move[2])

\* The same on_move a second time: the cursor stayed.
C16_Witness ==
    /\ MovedInGesture
    /\ last.ret = "True"
    /\ ~Inside(last.x)
    /\ last_move = <<last.x, last.y>>
    /\ last.posBefore = last.posAfter
    /\ last.posAfter # last.anchorBefore

\* C17: on_end returns True, leaves the anchor unset and the cursor where it
\* was, with or without a gesture; a second on_end changes nothing more.
C17_EndClearsAnchor ==
    /\ last.op = "on_end"
           => /\ last.ret = "True"
              /\ last.anchorAfter = NoAnchor
              /\ last.posAfter = last.posBefore
              /\ _initial_position = NoAnchor
    /\ on_end(on_end(_initial_position, position).anchor,
              on_end(_initial_position, position).position)
           = on_end(_initial_position, position)

\* on_end ended a gesture that had moved the cursor.
C17_Witness ==
    /\ last.op = "on_end"
    /\ last.anchorBefore # NoAnchor
    /\ last.posBefore # last.anchorBefore
    /\ last.anchorAfter = NoAnchor

\* C18: the test for an active gesture and the use of the anchor are one
\* atomic step: a thread inside the locked part of on_move, which it entered
\* after its `is None` test found an anchor, finds the anchor still set.
C18_CheckAndUseAtomic ==
    \A t \in Threads :
        (callers[t].pc = "locked" /\ callers[t].op = "on_move")
            => _initial_position # NoAnchor

\* C19: no mouse operation lets an exception out: when the backend raises,
\* the operation returns False.
C19_BackendFailureIsFalse ==
    last.op # None
        => /\ last.ret \in {"True", "False"}
           /\ last.fault # 0 => (last.ret = "False" \/ last.posAfter = last.posBefore)

(***************************************************************************)
(* Properties of the window enumeration                                    *)
(***************************************************************************)

\* The operating system's part of the last enumeration did not succeed.
EnumerationFailed ==
    \/ enumerated.outcome # "ok"
    \/ enumerated.count_outcome \in {"nonzero", "error", "false"}

\* C20: list_windows and list_instances raise nothing; they return the empty
\* list when the operating system's enumeration fails, times out, exits with
\* a code or prints nothing, and on a platform without enumeration.
C20_EnumerationNeverRaises ==
    enumerated.op # None
        => /\ ~enumerated.result.raised
           /\ EnumerationFailed => enumerated.result.value = <<>>
           /\ PlatformName \notin {"Darwin", "Windows"} => enumerated.result.value = <<>>

(***************************************************************************)
(* Properties of the workspace labels                                      *)
(***************************************************************************)

\* The places of s where sep stands.
Occurrences(s, sep) ==
    {n \in 1..Len(s) : n + Len(sep) - 1 <= Len(s) /\ SubSeq(s, n, n + Len(sep) - 1) = sep}

Least(S) == CHOOSE n \in S : \A m \in S : n <= m
Greatest(S) == CHOOSE n \in S : \A m \in S : m <= n

\* s without the blanks at its ends.
Trimmed(s) ==
    LET inked == {n \in 1..Len(s) : s[n] # " "}
    IN IF inked = {} THEN <<>> ELSE SubSeq(s, Least(inked), Greatest(inked))

\* The separator that rules a title: the em dash one when it occurs.
Ruling(s) == IF Occurrences(s, EmDashSep) # {} THEN EmDashSep ELSE HyphenSep

\* Everything that follows the first occurrence of sep.
AfterFirst(s, sep) == SubSeq(s, Least(Occurrences(s, sep)) + Len(sep), Len(s))

\* What stands between the first occurrence of sep and the next one after it,
\* or the end of s.
UpToSecond(s, sep) ==
    LET first == Least(Occurrences(s, sep))
        later == {n \in Occurrences(s, sep) : n >= first + Len(sep)}
    IN SubSeq(s, first + Len(sep), IF later = {} THEN Len(s) ELSE Least(later) - 1)

\* C22 as stated: the label is everything after the first occurrence of the
\* ruling separator, trimmed (the em dash separator rules when both occur), and
\* "Unknown" when neither separator occurs.
C22_LabelIsRest ==
    workspace # NoLabel =>
        workspace = IF Occurrences(window_title, Ruling(window_title)) # {}
                    THEN Trimmed(AfterFirst(window_title, Ruling(window_title)))
                    ELSE Unknown

\* C22: the label is what stands between the first occurrence of the ruling
\* separator and its next occurrence (or the end of the title), trimmed; the
\* em dash separator rules when both occur; the label is "Unknown" when
\* neither occurs.
C22_LabelIsSecondPart ==
    workspace # NoLabel =>
        workspace = IF Occurrences(window_title, Ruling(window_title)) # {}
                    THEN Trimmed(UpToSecond(window_title, Ruling(window_title)))
                    ELSE Unknown

\* A title with both separators, the hyphen one first, has been labelled.
C22_Witness ==
    /\ workspace # NoLabel
    /\ Occurrences(window_title, EmDashSep) # {}
    /\ Occurrences(window_title, HyphenSep) # {}
    /\ Least(Occurrences(window_title, HyphenSep)) < Least(Occurrences(window_title, EmDashSep))

(***************************************************************************)
(* Properties of the macOS window ids                                      *)
(***************************************************************************)

\* An activation has been made.
Activated == activation.ret # "None"

\* The activated id is the id of the listed window.
ActivatedListed == Activated /\ listed # <<>> /\ activation.window_id = listed[1].id

\* The separator stands somewhere in s.
HasSeparator(s) == \E n \in 1..Len(s) : s[n] = _ID_SEP

\* C21: activating the id of a listed window parses the id back into the
\* listed (appName, title) pair and runs the script on it; an id without the
\* separator is rejected with False and no script is run.
C21_RoundTrip ==
    /\ ActivatedListed =>
           /\ activation.script # <<>>
           /\ activation.parsed = <<listed[1].app, listed[1].title>>
    /\ Activated /\ ~HasSeparator(activation.window_id) =>
           activation.ret = "False" /\ activation.script = <<>>

(***************************************************************************)
(* Properties of the window handles                                        *)
(***************************************************************************)

\* C29: within one enumeration result, of list_windows or of list_instances,
\* no two windows share an id, two windows of one application with the same
\* title included.
C29_IdsUnique ==
    \A m \in 1..Len(enumerated.result.value), n \in 1..Len(enumerated.result.value) :
        m # n => enumerated.result.value[m].id # enumerated.result.value[n].id

\* The windows on the desktop, as a set.
OnDesktop == {desktop[n] : n \in 1..Len(desktop)}

\* The last activation was of an id that list_windows had given, and the
\* window it was given for is on the desktop no more.
StaleWindowId ==
    /\ focus.op = "activate_window"
    /\ enumerated.op = "list_windows"
    /\ \E n \in 1..Len(enumerated.result.value) : enumerated.result.value[n].id = focus.id
    /\ \A w \in OnDesktop : <<w.app, _ID_SEP, w.title>> # focus.id /\ str(w.hwnd) # focus.id

\* The last activation was of an instance of the cache whose window is on
\* the desktop no more.
StaleInstanceId ==
    /\ focus.op = "focus_instance"
    /\ \E n \in 1..Len(instances_cache) :
           /\ instances_cache[n].id = focus.id
           /\ \A m \in 1..(n - 1) : instances_cache[m].id # focus.id
           /\ \A w \in OnDesktop :
                  \/ w.app # application_name
                  \/ IF PlatformName = "Darwin"
                     THEN w.title # instances_cache[n].title
                     ELSE w.hwnd # instances_cache[n].hwnd

\* C23: activating an id whose window no longer exists returns False and
\* brings no window to the foreground, on macOS and on Windows (no activation
\* raises: every one returns).
C23_StaleFailsHarmlessly ==
    StaleWindowId \/ StaleInstanceId => focus.ret = "False" /\ focus.fronted = <<>>

\* The ids of the list the last list_instances call returned.
LastListed ==
    {enumerated.result.value[n].id : n \in 1..Len(enumerated.result.value)}

\* C24: after a list_instances call has returned the list L, the empty list of
\* a desktop without windows or of a failed enumeration included,
\* focus_instance(id) attempts an activation exactly when id is an id of L,
\* and returns False for every other id.
C24_OnlyLastListed ==
    focus.op = "focus_instance" /\ enumerated.op = "list_instances" =>
        /\ focus.attempted <=> focus.id \in LastListed
        /\ focus.id \notin LastListed => focus.ret = "False"

\* An activation script has run on macOS.
MacActivation == focus.attempted /\ PlatformName = "Darwin"

\* Every strategy tried has raised.
AllRaised == \A n \in 1..Len(focus.tried) : focus.tried[n] \in focus.raises

\* C25: on macOS the strategies are tried in the order set index, AXRaise,
\* click, each one only if all the earlier ones raised; the first one that
\* raises no error ends the chain with success; the activation reports
\* failure when the target window is not found or when all three raise.
C25_StrategyChain ==
    MacActivation =>
        /\ \A n \in 1..Len(focus.tried) :
               /\ focus.tried[n] = Strategies[n]
               /\ \A m \in 1..(n - 1) : focus.tried[m] \in focus.raises
        /\ \A n \in 1..Len(focus.tried) :
               focus.tried[n] \notin focus.raises =>
                   n = Len(focus.tried) /\ focus.ret = "True"
        /\ focus.found /\ AllRaised => Len(focus.tried) = Len(Strategies)
        /\ ~focus.found \/ AllRaised => focus.ret = "False"

\* C27: on_move tests the backend first (unavailable: False), then the
\* gesture (none active: False), then the dead zone (True, nothing changed),
\* and only then moves: an input in the dead zone gives True exactly when the
\* backend is available and a gesture is active, and False when no gesture is.
C27_CheckOrder ==
    last.op = "on_move" =>
        /\ ~PYNPUT_MOUSE_AVAILABLE => last.ret = "False"
        /\ last.anchorBefore = NoAnchor => last.ret = "False"
        /\ Inside(last.x) /\ Inside(last.y) =>
               /\ last.ret = "True" <=>
                      PYNPUT_MOUSE_AVAILABLE /\ last.anchorBefore # NoAnchor
               /\ last.posAfter = last.posBefore
               /\ last.anchorAfter = last.anchorBefore

\* An input in the dead zone, with the backend available and no gesture.
C27_Witness ==
    /\ last.op = "on_move"
    /\ PYNPUT_MOUSE_AVAILABLE
    /\ last.anchorBefore = NoAnchor
    /\ Inside(last.x) /\ Inside(last.y)
    /\ last.ret = "False"

(***************************************************************************)
(* Properties of the voice processor                                       *)
(***************************************************************************)

\* C30: transcribe_audio returns "Whisper model failed to load" only after a
\* load attempt has finished without loading the model; while the load the
\* constructor started is pending or running, no call reports a load failure.
C30_FailureOnlyAfterLoad ==
    \A t \in Threads :
        transcribers[t].ret = FAILED_TO_LOAD => loader = "done" /\ ~model_loaded

(***************************************************************************)
(* Properties of the catalog of key sequences                              *)
(***************************************************************************)

\* The built-in sequences: the buttons' and the detector's.
Catalog(detected) ==
    {ButtonKeySequence(b) : b \in Buttons}
        \cup {paste_key_sequence(detected), copy_key_sequence(detected),
              select_all_key_sequence(detected)}

\* seq, run with the keys of stack down (the last one pressed first), is
\* balanced and properly nested: a down or a press finds its key up, an up
\* releases the key pressed down last, and nothing is down at the end.
RECURSIVE Nested(_, _)
Nested(seq, stack) ==
    IF seq = <<>> THEN stack = <<>>
    ELSE LET key == Head(seq)[1]
             action == Head(seq)[2]
             down == {stack[n] : n \in 1..Len(stack)}
         IN CASE action = "down" ->
                     key \notin down /\ Nested(Tail(seq), <<key>> \o stack)
              [] action = "up" ->
                     stack # <<>> /\ Head(stack) = key /\ Nested(Tail(seq), Tail(stack))
              [] action = "press" -> key \notin down /\ Nested(Tail(seq), stack)
              [] OTHER -> FALSE

\* C28: every sequence of the catalog is balanced and properly nested, and a
\* run of one in which every step succeeds leaves no key held down.
C28_CatalogBalanced ==
    /\ \A seq \in Catalog(_detected_os) : Nested(seq, <<>>)
    /\ result = "True" /\ key_sequence \in Catalog(_detected_os) => held = {}

\* The sequence with two modifiers, one inside the other, has run to its end.
C28_Witness ==
    /\ result = "True"
    /\ key_sequence = ButtonKeySequence("stop_button")
    /\ Len(trace) > 0
    /\ held = {}

(***************************************************************************)
(* Properties of concurrent key sequences                                  *)
(***************************************************************************)

\* Thread a has pressed a modifier down at place m of the keyboard and has not
\* released it up to place n.
HoldsModifier(a, m, n) ==
    /\ keyboard[m].thread = a
    /\ keyboard[m].ev = "down"
    /\ keyboard[m].key \in {"ctrl", "cmd"}
    /\ \A k \in (m + 1)..n : ~(keyboard[k].thread = a /\ keyboard[k].key = keyboard[m].key)

\* C26: key sequences are not mutually excluded: no call of
\* simulate_key_sequence waits for another, so a thread that wants to start a
\* sequence can start it, and one that is at a step can make it, whatever the
\* other threads are in the middle of.
C26_NoMutualExclusion ==
    \A t \in Threads :
        /\ current_os # None /\ runners[t].pc = "idle" =>
               ENABLED (\E seq \in RequestSequences(_detected_os) : RunSequence(t, seq))
        /\ runners[t].pc = "step" => ENABLED (\E fault \in 0..1 : RunStep(t, fault))

\* A key event of one sequence has been issued between the modifier-down of
\* another sequence and its modifier-up, which is still to come.
C26_Witness ==
    \E a \in Threads, b \in Threads, m \in 1..Len(keyboard), n \in 1..Len(keyboard) :
        /\ a # b
        /\ m < n
        /\ HoldsModifier(a, m, Len(keyboard))
        /\ keyboard[n].thread = b
        /\ runners[a].pc \in {"step", "sleep"}

====
